---- MODULE Spec2Model ----
(***************************************************************************)
(* Model of the trace analytics of src/utils/evaluate.py.                  *)
(*                                                                         *)
(* Numbers.  A utility is a float in [0,1]; the model holds it as an       *)
(* integer count of 1e-9 steps (One = 1.0).  math.dist returns the square  *)
(* root of a sum of squares; the model holds a distance as that sum (the   *)
(* radicand), a two-limb number <<hi, lo>> of value hi * Base + lo, since   *)
(* the square of a 1e-9 step count does not fit one machine integer.  The  *)
(* square root is strictly increasing, so min, comparison and the test for *)
(* zero on the radicand are those on the distance.  float("inf") is the    *)
(* flag inf of a distance record.                                          *)
(***************************************************************************)
EXTENDS Integers, Sequences, FiniteSets

\* ------------------------------------------------------------------ bounds
\* Longest trace (number of actions) evaluate is run on.
MaxActions == 4
\* Longest Pareto frontier handed to distance_pareto.
MaxFront == 2

\* ----------------------------------------------------------------- numbers
One == 10^9
Tenth == 10^8
Lim == 2^15
Base == 2^30

Abs(x) == IF x < 0 THEN -x ELSE x

Max2(a, b) == IF a >= b THEN a ELSE b

\* math.isclose(a, b) with the default rel_tol = 1e-09 and abs_tol = 0.0:
\* abs(a - b) <= max(rel_tol * max(abs(a), abs(b)), abs_tol).
IsClose(a, b) == Abs(a - b) <= Max2(Abs(a), Abs(b)) \div One

\* d * d for |d| < Base, as a two-limb number.
Square(d) ==
    LET a == Abs(d)
        h == a \div Lim
        l == a % Lim
        m == 2 * h * l
        lo0 == (m % Lim) * Lim + l * l
    IN  <<h * h + (m \div Lim) + (lo0 \div Base), lo0 % Base>>

BigAdd(x, y) ==
    LET lo == x[2] + y[2]
    IN  <<x[1] + y[1] + (lo \div Base), lo % Base>>

BigLess(x, y) == x[1] < y[1] \/ (x[1] = y[1] /\ x[2] < y[2])

BigZero == <<0, 0>>

\* float("inf")
Inf == [inf |-> TRUE, sq |-> BigZero]

Finite(sq) == [inf |-> FALSE, sq |-> sq]

\* d < e on distances.
DistLess(d, e) ==
    IF d.inf THEN FALSE
    ELSE IF e.inf THEN TRUE
    ELSE BigLess(d.sq, e.sq)

\* min(d, new_d): Python returns its first argument unless a later one is smaller.
DistMin(d, new_d) == IF DistLess(new_d, d) THEN new_d ELSE d

\* Mutant of distance: the second coordinate left out.
distance_of_first_coordinate(x, y) == Finite(Square(x[1] - y[1]))

\* distance(x, y) = math.dist(x, y) of two two-dimensional points.
distance(x, y) == Finite(BigAdd(Square(x[1] - y[1]), Square(x[2] - y[2])))

\* ---------------------------------------------------------- distance_pareto
\* Python's utility[is_b] and utility[not is_b] for is_b in {0, 1}.
AtSeat(utility, is_b) == utility[is_b + 1]

AtOtherSeat(utility, is_b) == utility[(1 - is_b) + 1]

\* Mutant of SelfNotLower: the math.isclose alternative of line 45 dropped.
SelfNotLowerExact(utility_pareto_self, utility_self) ==
    utility_pareto_self >= utility_self

\* The guard of line 45: the frontier point does not lower the bidder's utility.
SelfNotLower(utility_pareto_self, utility_self) ==
    utility_pareto_self >= utility_self \/ IsClose(utility_pareto_self, utility_self)

\* The guard of line 47: the frontier point does not lower the opponent's utility.
OpponentNotLower(utility_pareto_opponent, utility_opponent) ==
    utility_pareto_opponent >= utility_opponent
        \/ IsClose(utility_pareto_opponent, utility_opponent)

\* The candidate list built by the loop of lines 41-48, in frontier order.
RECURSIVE Candidates(_, _, _)
Candidates(utility, is_b, front) ==
    IF front = <<>> THEN <<>>
    ELSE LET point == Head(front)
             utility_pareto_self == AtSeat(point.utility, is_b)
             utility_pareto_opponent == AtOtherSeat(point.utility, is_b)
             rest == Candidates(utility, is_b, Tail(front))
         IN  IF SelfNotLower(utility_pareto_self, AtSeat(utility, is_b))
                  /\ OpponentNotLower(utility_pareto_opponent, AtOtherSeat(utility, is_b))
             THEN <<<<utility_pareto_self, utility_pareto_opponent>>>> \o rest
             ELSE rest

\* Mutant of BidPoint: the pair taken in seat order, whoever bids.
BidPointInSeatOrder(utility, is_b) == <<utility[1], utility[2]>>

\* bid_point of line 50.
BidPoint(utility, is_b) == <<AtSeat(utility, is_b), AtOtherSeat(utility, is_b)>>

\* The loop of lines 51-54 from the running minimum d.
RECURSIVE Closest(_, _, _)
Closest(d, bid_point, candidates) ==
    IF candidates = <<>> THEN d
    ELSE Closest(DistMin(d, distance(bid_point, Head(candidates))),
                 bid_point, Tail(candidates))

distance_pareto(utility, is_b, front) ==
    Closest(Inf, BidPoint(utility, is_b), Candidates(utility, is_b, front))

\* x / y on floats, a fraction num/den; den = 0 stands for the
\* ZeroDivisionError Python raises on a division by 0.
Divide(x, y) == IF y = 0 THEN [num |-> 0, den |-> 0] ELSE [num |-> x, den |-> y]

\* Mutant of get_percentage: the special case of lines 68-69 dropped.
get_percentage_unguarded(x, y) ==
    LET q == Divide(x, y) IN [num |-> q.num * 100, den |-> q.den]

get_percentage(x, y) ==
    IF y = 0 THEN [num |-> 0, den |-> 1]
    ELSE LET q == Divide(x, y) IN [num |-> q.num * 100, den |-> q.den]

\* --------------------------------------------------------------- the state
VARIABLES
    pc,                 \* "start": evaluate is entered; "loop": its pass;
                        \* "done": returned; "raised": ended by an exception;
                        \* "call"/"return": a call of distance_pareto alone
    specials_file,      \* domains/<domain>/specials.json as found on disk
    key_order,          \* the key order of the utilities mappings of the trace
    domain,             \* evaluate: the domain identifier (line 119)
    pareto_front,       \* specials["pareto_front"], a list of points
    kalai_utility,      \* specials["kalai"]["utility"]
    nash_utility,       \* specials["nash"]["utility"]
    actions,            \* the part of results_trace["actions"] the loop has passed
    agreement, agreement_utility, agreement_actor,
    num_moves, utility_a, utility_b,
    fortunate_moves, selfish_moves, concession_moves,
    unfortunate_moves, nice_moves, silent_moves,
    total_distance,
    files,              \* the files of output_path, each a list of rows
    evaluation_metrics, \* <<>> until evaluate returns, then <<the dictionary>>
    dans_metrics,       \* <<>> until evaluate returns, then one row per agent
    arg_utility, arg_is_b, arg_front, result,   \* a call of distance_pareto
    results_dir,        \* aggregate: the tournament directories of ../results/
                        \* in the order iterdir yields them
    evaluation_list,    \* aggregate: the evaluation rows read, per tournament
    dans_list,          \* aggregate: the Dans rows read, per tournament
    num_tournaments, num_sessions,
    aggregate_files,    \* aggregate_evaluation.csv and dans_evaluation.csv
    previous_run,       \* <<>>, or <<what an earlier run of the same program
                        \* on the same input returned or wrote>>
    replay,             \* evaluate run again: the actions of the trace to come
    tournament_files,   \* append_metrics: tournament_evaluation.csv and
                        \* tournament_dans.csv of output_path, each absent or
                        \* a list of lines
    workers,            \* append_metrics: per caller, its session_id, its
                        \* metrics and the line it has reached
    party,              \* the class of the agent: SimpleAgent or Agent61
    profile,            \* self.profile: the utility of every bid of the
                        \* domain, in the order of AllBidsList
    reservation_bid, last_received_bid,
    all_bids, current_bid_index,        \* SimpleAgent
    best_bids, all_best_bids,           \* Agent61
    opponent_model,     \* Agent61: None or created
    progress,           \* what self.progress.get last returned, in hundredths
    sent,               \* the actions handed to send_action, in order
    found,              \* the bids find_bid returned, in order
    notified,           \* the number of notifications notifyChange handled
    opponent_offer      \* the bid of the latest Offer of the opponent the
                        \* agent was notified of, None before the first

inputVars == <<specials_file, key_order>>

refVars == <<domain, pareto_front, kalai_utility, nash_utility>>

agreementVars == <<agreement, agreement_utility, agreement_actor>>

moveVars == <<num_moves, utility_a, utility_b, fortunate_moves, selfish_moves,
              concession_moves, unfortunate_moves, nice_moves, silent_moves,
              total_distance>>

metricVars == <<evaluation_metrics, dans_metrics>>

callVars == <<arg_utility, arg_is_b, arg_front, result>>

evaluateVars == <<inputVars, refVars, actions, agreementVars, moveVars, files,
                  metricVars, callVars>>

aggVars == <<results_dir, evaluation_list, dans_list, num_tournaments, num_sessions,
             aggregate_files>>

rerunVars == <<previous_run, replay>>

appendVars == <<tournament_files, workers>>

partyVars == <<party, profile, reservation_bid, last_received_bid, all_bids,
               current_bid_index, best_bids, all_best_bids, opponent_model, progress,
               sent, found, notified, opponent_offer>>

vars == <<pc, inputVars, refVars, actions, agreementVars, moveVars, files, metricVars,
          callVars, aggVars, rerunVars, appendVars, partyVars>>

\* ------------------------------------------------------------------ inputs
\* The two party identifiers of results_trace["partyprofiles"], in its order,
\* each as the list str(agent).split("_") yields.
AgentA == <<"agents", "agent61", "Agent61", "1">>

AgentB == <<"agents", "simple", "SimpleAgent", "2">>

\* agents of lines 111-114.
agents == <<AgentA, AgentB>>

Actors == {agents[i] : i \in 1..Len(agents)}

\* "_".join(str(agent).split("_")[-2:]) of line 115, as the list of kept parts.
NameOf(agent) ==
    IF Len(agent) <= 2 THEN agent ELSE SubSeq(agent, Len(agent) - 1, Len(agent))

\* names of lines 112-115.
names == [i \in 1..Len(agents) |-> NameOf(agents[i])]

\* list.index(x): the first position holding x, counted from 0.
IndexOf(list, x) ==
    (CHOOSE i \in 1..Len(list) : list[i] = x /\ \A j \in 1..(i - 1) : list[j] # x) - 1

\* A utility pair in tenths.
U(a, b) == <<a * Tenth, b * Tenth>>

Pt(a, b) == [utility |-> U(a, b)]

\* The domain references evaluate is run against: a frontier that weakly
\* dominates only part of the offers, and one that dominates all of them.
Domains ==
    { [domain |-> "domain01", readable |-> TRUE, pareto_front |-> <<Pt(5, 5)>>,
       nash |-> U(7, 5), kalai |-> U(6, 5)],
      [domain |-> "domain02", readable |-> TRUE,
       pareto_front |-> <<Pt(10, 0), Pt(6, 5), Pt(0, 10)>>,
       nash |-> U(7, 5), kalai |-> U(6, 5)] }

\* A domain whose specials.json is absent or cannot be read.
MissingSpecials ==
    [domain |-> "domain03", readable |-> FALSE, pareto_front |-> <<>>,
     nash |-> <<0, 0>>, kalai |-> <<0, 0>>]

\* The utility pairs of the bids offered and accepted.
OfferUtilities == {U(0, 0), U(5, 5), U(6, 4), U(6, 5)}

AcceptUtilities == {U(6, 4)}

\* The utilities mapping of an action: its (key, value) items in the
\* mapping's own order, which is the order of partyprofiles or the other one.
KeyOrders == {<<AgentA, AgentB>>, <<AgentB, AgentA>>}

\* The mapping that gives seat A's actor pair[1] and seat B's actor pair[2],
\* its items in the order keys.
UtilitiesMapping(keys, pair) ==
    [i \in 1..2 |-> <<keys[i], pair[IndexOf(agents, keys[i]) + 1]>>]

KeysOf(action) == <<action.utilities[1][1], action.utilities[2][1]>>

OfferActions ==
    { [kind |-> "Offer", actor |-> a, utilities |-> UtilitiesMapping(k, u)] :
        a \in Actors, k \in KeyOrders, u \in OfferUtilities }

AcceptActions ==
    { [kind |-> "Accept", actor |-> a, utilities |-> UtilitiesMapping(k, u)] :
        a \in Actors, k \in KeyOrders, u \in AcceptUtilities }

\* One producer writes every action of a trace: all its mappings share one order.
SameProducer(action) == KeysOf(action) = key_order

\* ------------------------------------------------------------------ evaluate
\* The loops of lines 163-165 and 211-213: the mapping's values, in its order.
UtilityList(action) == <<action.utilities[1][2], action.utilities[2][2]>>

\* Mutant of DeltaA: the delta taken against the other actor's stored utility.
DeltaAOfOpponent(agent, new_utility_a) ==
    new_utility_a - utility_a[IF agent = agents[1] THEN agents[2] ELSE agents[1]]

\* Lines 172-173.
DeltaA(agent, new_utility_a) == new_utility_a - utility_a[agent]

DeltaB(agent, new_utility_b) == new_utility_b - utility_b[agent]

\* The six conditions of lines 179-189.
IsFortunate(delta_a, delta_b) == delta_a > 0 /\ delta_b > 0

\* Mutant of IsSelfish: the equality of line 181 dropped.
IsSelfishStrict(delta_a, delta_b) == delta_a > 0 /\ delta_b < 0

IsSelfish(delta_a, delta_b) == delta_a > 0 /\ delta_b <= 0

IsConcession(delta_a, delta_b) == delta_a < 0 /\ delta_b >= 0

\* Mutant of IsUnfortunate: the equality of line 185 dropped.
IsUnfortunateStrict(delta_a, delta_b) == delta_a < 0 /\ delta_b < 0

IsUnfortunate(delta_a, delta_b) == delta_a <= 0 /\ delta_b < 0

IsNice(delta_a, delta_b) == IsClose(delta_a, 0) /\ delta_b > 0

IsSilent(delta_a, delta_b) == IsClose(delta_a, 0) /\ IsClose(delta_b, 0)

Tally(counter, agent, hit) ==
    [counter EXCEPT ![agent] = IF hit THEN @ + 1 ELSE @]

\* total + d on floats: a sum that met float("inf") is float("inf"); a finite
\* sum is held as the list of its terms (radicands).
FloatZero == [inf |-> FALSE, terms |-> <<>>]

FloatAdd(total, d) ==
    IF total.inf \/ d.inf THEN [inf |-> TRUE, terms |-> <<>>]
    ELSE [inf |-> FALSE, terms |-> Append(total.terms, d.sq)]

\* Lines 158-203: one Offer of the trace.
OnOffer(action) ==
    LET offer == action
        agent == offer.actor
        utility == UtilityList(offer)
        new_utility_a == utility[1]
        new_utility_b == utility[2]
        delta_a == DeltaA(agent, new_utility_a)
        delta_b == DeltaB(agent, new_utility_b)
        is_b == IndexOf(agents, agent)
        d == distance_pareto(utility, is_b, pareto_front)
        name == names[IndexOf(agents, agent) + 1]
    IN  /\ num_moves' = [num_moves EXCEPT ![agent] = @ + 1]
        /\ fortunate_moves' = Tally(fortunate_moves, agent, IsFortunate(delta_a, delta_b))
        /\ selfish_moves' = Tally(selfish_moves, agent, IsSelfish(delta_a, delta_b))
        /\ concession_moves' = Tally(concession_moves, agent, IsConcession(delta_a, delta_b))
        /\ unfortunate_moves' = Tally(unfortunate_moves, agent, IsUnfortunate(delta_a, delta_b))
        /\ nice_moves' = Tally(nice_moves, agent, IsNice(delta_a, delta_b))
        /\ silent_moves' = Tally(silent_moves, agent, IsSilent(delta_a, delta_b))
        /\ total_distance' = [total_distance EXCEPT ![agent] = FloatAdd(@, d)]
        /\ files' = [files EXCEPT ![<<"deltas", name>>] = Append(@, <<delta_a, delta_b>>),
                                  ![<<"distances", name>>] = Append(@, d)]
        /\ utility_a' = [utility_a EXCEPT ![agent] = new_utility_a]
        /\ utility_b' = [utility_b EXCEPT ![agent] = new_utility_b]
        /\ UNCHANGED agreementVars

\* Mutant of OnAccept: the Accept counted as a move of the accepting actor.
OnAcceptCountedAsMove(action) ==
    /\ agreement' = TRUE
    /\ agreement_actor' = names[IndexOf(agents, action.actor) + 1]
    /\ agreement_utility' = UtilityList(action)
    /\ num_moves' = [num_moves EXCEPT ![action.actor] = @ + 1]
    /\ UNCHANGED <<utility_a, utility_b, fortunate_moves, selfish_moves,
                   concession_moves, unfortunate_moves, nice_moves, silent_moves,
                   total_distance, files>>

\* Mutant of OnAccept: an Accept after the first leaves the agreement alone.
OnAcceptKeepingFirst(action) ==
    /\ agreement' = TRUE
    /\ agreement_actor' =
           IF agreement THEN agreement_actor
           ELSE names[IndexOf(agents, action.actor) + 1]
    /\ agreement_utility' =
           IF agreement THEN agreement_utility ELSE UtilityList(action)
    /\ UNCHANGED <<moveVars, files>>

\* Lines 206-214: one Accept of the trace.
OnAccept(action) ==
    LET accept == action
        agent == accept.actor
    IN  /\ agreement' = TRUE
        /\ agreement_actor' = names[IndexOf(agents, agent) + 1]
        /\ agreement_utility' = UtilityList(accept)
        /\ UNCHANGED <<moveVars, files>>

ProcessOffer ==
    /\ pc = "loop"
    /\ Len(actions) < MaxActions
    /\ \E action \in OfferActions :
        /\ SameProducer(action)
        /\ OnOffer(action)
        /\ actions' = Append(actions, action)
    /\ UNCHANGED <<partyVars, appendVars, pc, inputVars, refVars, metricVars, callVars, aggVars, rerunVars>>

ProcessAccept ==
    /\ pc = "loop"
    /\ Len(actions) < MaxActions
    /\ \E action \in AcceptActions :
        /\ SameProducer(action)
        /\ OnAccept(action)
        /\ actions' = Append(actions, action)
    /\ UNCHANGED <<partyVars, appendVars, pc, inputVars, refVars, metricVars, callVars, aggVars, rerunVars>>

\* Lines 217-227.
EvaluationMetrics ==
    [domain |-> domain,
     agent_A |-> names[1],
     agent_B |-> names[2],
     agreement |-> agreement,
     agreed_by |-> agreement_actor,
     utility_a |-> agreement_utility[1],
     utility_b |-> agreement_utility[2],
     distance_nash |-> distance(agreement_utility, nash_utility),
     distance_kalai |-> distance(agreement_utility, kalai_utility)]

\* Mutant of BehavSens: the selfish moves left out of the denominator.
BehavSensWithoutSelfish(agent) ==
    LET numerator == fortunate_moves[agent] + nice_moves[agent] + concession_moves[agent]
        denominator == unfortunate_moves[agent] + silent_moves[agent]
    IN  IF denominator = 0 THEN [text |-> "inf", num |-> 0, den |-> 1]
        ELSE LET q == Divide(numerator, denominator)
             IN  [text |-> "", num |-> q.num, den |-> q.den]

\* Lines 258-263; the string "inf" is the field text.
BehavSens(agent) ==
    LET numerator == fortunate_moves[agent] + nice_moves[agent] + concession_moves[agent]
        denominator == unfortunate_moves[agent] + silent_moves[agent] + selfish_moves[agent]
    IN  IF denominator = 0 THEN [text |-> "inf", num |-> 0, den |-> 1]
        ELSE LET q == Divide(numerator, denominator)
             IN  [text |-> "", num |-> q.num, den |-> q.den]

\* Mutant of PrefSens: the number of offers counted from the rows of the
\* agent's deltas file.
PrefSensOverFileRows(agent) ==
    LET num_offers == Len(files[<<"deltas", names[IndexOf(agents, agent) + 1]>>])
    IN  IF num_offers # 0
        THEN [inf |-> total_distance[agent].inf, terms |-> total_distance[agent].terms,
              den |-> Divide(1, num_offers).den]
        ELSE [inf |-> total_distance[agent].inf, terms |-> total_distance[agent].terms,
              den |-> 1]

\* Line 266: the total over float(num_offers), or the total itself.
PrefSens(agent) ==
    LET num_offers == num_moves[agent]
    IN  IF num_offers # 0
        THEN [inf |-> total_distance[agent].inf, terms |-> total_distance[agent].terms,
              den |-> Divide(1, num_offers).den]
        ELSE [inf |-> total_distance[agent].inf, terms |-> total_distance[agent].terms,
              den |-> 1]

\* Lines 231-267: the row of one agent.
DansRow(agent) ==
    LET num_offers == num_moves[agent]
    IN  [domain |-> domain,
         agent |-> names[IndexOf(agents, agent) + 1],
         num_offers |-> num_offers,
         fortunate_pct |-> get_percentage(fortunate_moves[agent], num_offers),
         selfish_pct |-> get_percentage(selfish_moves[agent], num_offers),
         concession_pct |-> get_percentage(concession_moves[agent], num_offers),
         unfortunate_pct |-> get_percentage(unfortunate_moves[agent], num_offers),
         nice_pct |-> get_percentage(nice_moves[agent], num_offers),
         silent_pct |-> get_percentage(silent_moves[agent], num_offers),
         behav_sens |-> BehavSens(agent),
         pref_sens |-> PrefSens(agent)]

DansMetrics == [i \in 1..Len(agents) |-> DansRow(agents[i])]

\* A division of the row raised ZeroDivisionError.
RowRaises(row) ==
    \/ \E q \in {row.fortunate_pct, row.selfish_pct, row.concession_pct,
                 row.unfortunate_pct, row.nice_pct, row.silent_pct} : q.den = 0
    \/ row.behav_sens.den = 0
    \/ row.pref_sens.den = 0

\* Lines 216-272 with write_metrics (lines 275-284): the end of the pass.
Finish ==
    /\ pc = "loop"
    /\ IF \E i \in 1..Len(agents) : RowRaises(DansMetrics[i])
       THEN /\ pc' = "raised"
            /\ UNCHANGED <<metricVars, files>>
       ELSE /\ pc' = "done"
            /\ evaluation_metrics' = <<EvaluationMetrics>>
            /\ dans_metrics' = DansMetrics
            /\ files' = [files EXCEPT ![<<"evaluation.csv">>] = <<EvaluationMetrics>>,
                                      ![<<"dans.csv">>] = DansMetrics]
    /\ UNCHANGED <<partyVars, appendVars, inputVars, refVars, actions, agreementVars, moveVars, callVars,
                   aggVars, rerunVars>>

FileNames ==
    {<<"evaluation.csv">>, <<"dans.csv">>}
        \cup {<<"deltas", names[i]>> : i \in 1..Len(agents)}
        \cup {<<"distances", names[i]>> : i \in 1..Len(agents)}

\* Lines 129-154: evaluate's locals before the pass, on an empty output directory.
EvaluateLocals ==
    /\ actions = <<>>
    /\ agreement = FALSE
    /\ agreement_utility = <<0, 0>>
    /\ agreement_actor = <<>>
    /\ num_moves = [a \in Actors |-> 0]
    /\ utility_a = [a \in Actors |-> 0]
    /\ utility_b = [a \in Actors |-> 0]
    /\ fortunate_moves = [a \in Actors |-> 0]
    /\ selfish_moves = [a \in Actors |-> 0]
    /\ concession_moves = [a \in Actors |-> 0]
    /\ unfortunate_moves = [a \in Actors |-> 0]
    /\ nice_moves = [a \in Actors |-> 0]
    /\ silent_moves = [a \in Actors |-> 0]
    /\ total_distance = [a \in Actors |-> FloatZero]
    /\ files = [f \in FileNames |-> <<>>]
    /\ evaluation_metrics = <<>>
    /\ dans_metrics = <<>>

NoCall ==
    /\ arg_utility = <<0, 0>>
    /\ arg_is_b = 0
    /\ arg_front = <<>>
    /\ result = Inf

\* The files append_metrics writes, and a file that does not exist.
TournamentFileNames == {"tournament_evaluation.csv", "tournament_dans.csv"}

Absent == [exists |-> FALSE, lines |-> <<>>]

\* Python's None where a bid is expected, and where a list of bids is.
None == 0

NoList == <<None>>

\* The program is run for the first time.
FirstRun ==
    /\ previous_run = <<>>
    /\ replay = <<>>

\* append_metrics is not called.
NoAppend ==
    /\ tournament_files = [f \in TournamentFileNames |-> Absent]
    /\ workers = <<>>

\* No agent is constructed.
NoParty ==
    /\ party = "none"
    /\ profile = <<>>
    /\ reservation_bid = None
    /\ last_received_bid = None
    /\ all_bids = <<>>
    /\ current_bid_index = -1
    /\ best_bids = NoList
    /\ all_best_bids = NoList
    /\ opponent_model = FALSE
    /\ progress = 0
    /\ sent = <<>>
    /\ found = <<>>
    /\ notified = 0
    /\ opponent_offer = None

\* aggregate.main is not run.
NoAggregate ==
    /\ results_dir = <<>>
    /\ evaluation_list = <<>>
    /\ dans_list = <<>>
    /\ num_tournaments = 0
    /\ num_sessions = 0
    /\ aggregate_files = [f \in {"aggregate_evaluation.csv", "dans_evaluation.csv"} |->
                            [written |-> FALSE, rows |-> <<>>]]

\* Lines 117-127: the domain reference is opened and read, then the pass
\* starts; open raises on a file that is absent or unreadable.
LoadSpecials ==
    /\ pc = "start"
    /\ IF specials_file.readable
       THEN /\ pc' = "loop"
            /\ pareto_front' = specials_file.pareto_front
            /\ kalai_utility' = specials_file.kalai
            /\ nash_utility' = specials_file.nash
       ELSE /\ pc' = "raised"
            /\ UNCHANGED <<pareto_front, kalai_utility, nash_utility>>
    /\ UNCHANGED <<partyVars, appendVars, inputVars, domain, actions, agreementVars, moveVars, files,
                   metricVars, callVars, aggVars, rerunVars>>

\* evaluate is entered: line 119 has the domain, nothing is read yet.
EvaluateEntered ==
    /\ pc = "start"
    /\ specials_file \in Domains \cup {MissingSpecials}
    /\ domain = specials_file.domain
    /\ pareto_front = <<>>
    /\ kalai_utility = <<0, 0>>
    /\ nash_utility = <<0, 0>>
    /\ EvaluateLocals
    /\ NoCall
    /\ NoAggregate
    /\ FirstRun
    /\ NoAppend
    /\ NoParty

\* The trace lists the utilities of an action in the order of partyprofiles.
Init ==
    /\ EvaluateEntered
    /\ key_order = agents

Next == LoadSpecials \/ ProcessOffer \/ ProcessAccept \/ Finish

Spec == Init /\ [][Next]_vars

\* The trace lists them in whichever order its producer keeps.
InitAnyKeyOrder ==
    /\ EvaluateEntered
    /\ key_order \in KeyOrders

SpecAnyKeyOrder == InitAnyKeyOrder /\ [][Next]_vars

\* ---------------------------------------------------------- evaluate, twice
\* The length of the traces evaluate is run on twice.
MaxRerunActions == 3

\* What a run of evaluate returned: the two metrics, or an exception.
EvaluateOutcome ==
    [raised |-> pc = "raised",
     evaluation_metrics |-> evaluation_metrics,
     dans_metrics |-> dans_metrics]

\* The first run passes a trace of at most MaxRerunActions actions.
FirstOffer ==
    /\ previous_run = <<>>
    /\ Len(actions) < MaxRerunActions
    /\ ProcessOffer

FirstAccept ==
    /\ previous_run = <<>>
    /\ Len(actions) < MaxRerunActions
    /\ ProcessAccept

FirstFinish ==
    /\ previous_run = <<>>
    /\ Finish

\* evaluate has ended and is called again with the same results_trace and
\* the same output_path, whose files the first run left behind: the locals
\* of lines 129-154 are fresh, the files are not.
Rerun ==
    /\ pc \in {"done", "raised"}
    /\ previous_run = <<>>
    /\ previous_run' = <<EvaluateOutcome>>
    /\ replay' = actions
    /\ pc' = "start"
    /\ pareto_front' = <<>>
    /\ kalai_utility' = <<0, 0>>
    /\ nash_utility' = <<0, 0>>
    /\ actions' = <<>>
    /\ agreement' = FALSE
    /\ agreement_utility' = <<0, 0>>
    /\ agreement_actor' = <<>>
    /\ num_moves' = [a \in Actors |-> 0]
    /\ utility_a' = [a \in Actors |-> 0]
    /\ utility_b' = [a \in Actors |-> 0]
    /\ fortunate_moves' = [a \in Actors |-> 0]
    /\ selfish_moves' = [a \in Actors |-> 0]
    /\ concession_moves' = [a \in Actors |-> 0]
    /\ unfortunate_moves' = [a \in Actors |-> 0]
    /\ nice_moves' = [a \in Actors |-> 0]
    /\ silent_moves' = [a \in Actors |-> 0]
    /\ total_distance' = [a \in Actors |-> FloatZero]
    /\ evaluation_metrics' = <<>>
    /\ dans_metrics' = <<>>
    /\ UNCHANGED <<partyVars, appendVars, inputVars, domain, files, callVars, aggVars>>

\* Lines 156-214 of the second run: the next action of the same trace.
ReplayOffer ==
    /\ pc = "loop"
    /\ previous_run # <<>>
    /\ replay # <<>>
    /\ Head(replay).kind = "Offer"
    /\ OnOffer(Head(replay))
    /\ actions' = Append(actions, Head(replay))
    /\ replay' = Tail(replay)
    /\ UNCHANGED <<partyVars, appendVars, pc, inputVars, refVars, metricVars, callVars, aggVars, previous_run>>

ReplayAccept ==
    /\ pc = "loop"
    /\ previous_run # <<>>
    /\ replay # <<>>
    /\ Head(replay).kind = "Accept"
    /\ OnAccept(Head(replay))
    /\ actions' = Append(actions, Head(replay))
    /\ replay' = Tail(replay)
    /\ UNCHANGED <<partyVars, appendVars, pc, inputVars, refVars, metricVars, callVars, aggVars, previous_run>>

\* The second run ends when the trace is passed.
ReplayFinish ==
    /\ previous_run # <<>>
    /\ replay = <<>>
    /\ Finish

NextRerun ==
    \/ LoadSpecials
    \/ FirstOffer
    \/ FirstAccept
    \/ FirstFinish
    \/ Rerun
    \/ ReplayOffer
    \/ ReplayAccept
    \/ ReplayFinish

SpecRerun == Init /\ [][NextRerun]_vars

\* ------------------------------------------------- distance_pareto on its own
\* The utilities the calls are made on: 0, 0.5, and 1.0 with its neighbour
\* one 1e-9 step below, which math.isclose takes for 1.0.
CallUtilities == {0, 5 * Tenth, One - 1, One}

CallPoints == {<<a, b>> : a \in CallUtilities, b \in CallUtilities}

RECURSIVE SeqsUpTo(_, _)
SeqsUpTo(S, n) ==
    IF n = 0 THEN {<<>>}
    ELSE LET shorter == SeqsUpTo(S, n - 1)
         IN  shorter \cup {Append(q, x) : q \in {r \in shorter : Len(r) = n - 1}, x \in S}

CallFronts == SeqsUpTo({[utility |-> p] : p \in CallPoints}, MaxFront)

InitPareto ==
    /\ pc = "call"
    /\ arg_utility \in CallPoints
    /\ arg_is_b \in {0, 1}
    /\ arg_front \in CallFronts
    /\ result = Inf
    /\ specials_file = MissingSpecials
    /\ key_order = agents
    /\ domain = "domain00"
    /\ pareto_front = <<>>
    /\ kalai_utility = <<0, 0>>
    /\ nash_utility = <<0, 0>>
    /\ EvaluateLocals
    /\ NoAggregate
    /\ FirstRun
    /\ NoAppend
    /\ NoParty

CallDistancePareto ==
    /\ pc = "call"
    /\ result' = distance_pareto(arg_utility, arg_is_b, arg_front)
    /\ pc' = "return"
    /\ UNCHANGED <<partyVars, appendVars, inputVars, refVars, actions, agreementVars, moveVars, files, metricVars,
                   arg_utility, arg_is_b, arg_front, aggVars, rerunVars>>

NextPareto == CallDistancePareto

SpecPareto == InitPareto /\ [][NextPareto]_vars

\* ----------------------------------------------------------------- aggregate
\* The number of tournament directories under ../results/.
MaxTournaments == 2

\* The calls of append_metrics in a row, and the callers at a time.
MaxCalls == 3

MaxWorkers == 2

\* The notifications an agent is sent after its Settings.
MaxNotifications == 5

\* The session ids append_metrics wrote in front of the rows of a tournament.
Ordinals == 1..2

\* Both sessions of a pair of ordinals are played on one domain.
DomainOfSession(session_id) == "domain00"

NameA == NameOf(AgentA)

NameB == NameOf(AgentB)

\* The names of the same two seats when a run numbers its parties otherwise.
RenamedA == <<"Agent61", "3">>

RenamedB == <<"SimpleAgent", "4">>

\* A row of tournament_evaluation.csv, with the columns main reads.  The
\* cell of agreement is the text pandas writes for a bool; utilities and
\* distances are counted in tenths.
TournamentEvaluationRow(session_id, agent_A, agent_B, agreement_cell, u, d) ==
    [session_id |-> session_id, domain |-> DomainOfSession(session_id),
     agent_A |-> agent_A, agent_B |-> agent_B, agreement |-> agreement_cell,
     utility_a |-> u[1], utility_b |-> u[2],
     distance_nash |-> d[1], distance_kalai |-> d[2]]

\* A row of tournament_dans.csv, with the columns main reads: percentages in
\* percent points, pref_sens in tenths.
TournamentDansRow(session_id, agent, num_offers, pct, pref_sens) ==
    [session_id |-> session_id, domain |-> DomainOfSession(session_id),
     agent |-> agent, num_offers |-> num_offers,
     fortunate_pct |-> pct[1], selfish_pct |-> pct[2], concession_pct |-> pct[3],
     unfortunate_pct |-> pct[4], nice_pct |-> pct[5], silent_pct |-> pct[6],
     pref_sens |-> pref_sens]

\* What one session left in the two files of its tournament: one evaluation
\* row and the Dans rows of seat A and seat B (append_metrics, lines 287-306).
SessionRows(session_id, kind) ==
    CASE kind = "agreed" ->
            [evaluation |-> <<TournamentEvaluationRow(session_id, NameA, NameB, "True",
                                                      <<6, 4>>, <<1, 1>>)>>,
             dans |-> <<TournamentDansRow(session_id, NameA, 2, <<50, 50, 0, 0, 0, 0>>, 2),
                        TournamentDansRow(session_id, NameB, 1, <<0, 0, 100, 0, 0, 0>>, 0)>>]
      [] kind = "failed" ->
            [evaluation |-> <<TournamentEvaluationRow(session_id, NameA, NameB, "False",
                                                      <<0, 0>>, <<9, 8>>)>>,
             dans |-> <<TournamentDansRow(session_id, NameA, 4, <<25, 25, 0, 0, 0, 50>>, 1),
                        TournamentDansRow(session_id, NameB, 4, <<0, 0, 0, 100, 0, 0>>, 3)>>]
      [] kind = "renamed" ->
            [evaluation |-> <<TournamentEvaluationRow(session_id, RenamedA, RenamedB, "True",
                                                      <<5, 5>>, <<2, 1>>)>>,
             dans |-> <<TournamentDansRow(session_id, RenamedA, 1, <<100, 0, 0, 0, 0, 0>>, 1),
                        TournamentDansRow(session_id, RenamedB, 1, <<0, 0, 0, 0, 100, 0>>, 1)>>]
      [] kind = "same_name" ->
            [evaluation |-> <<TournamentEvaluationRow(session_id, NameA, NameA, "True",
                                                      <<6, 4>>, <<1, 1>>)>>,
             dans |-> <<TournamentDansRow(session_id, NameA, 2, <<50, 50, 0, 0, 0, 0>>, 2),
                        TournamentDansRow(session_id, NameA, 1, <<0, 0, 100, 0, 0, 0>>, 0)>>]
      [] OTHER -> [evaluation |-> <<>>, dans |-> <<>>]

SessionKinds == {"agreed", "failed", "renamed", "same_name", "absent"}

\* The rows of the sessions of a tournament, in the order of their ids.
RECURSIVE RowsUpTo(_, _, _)
RowsUpTo(kinds, file, n) ==
    IF n = 0 THEN <<>>
    ELSE RowsUpTo(kinds, file, n - 1) \o SessionRows(n, kinds[n])[file]

\* A tournament directory: its two files, each readable or not.
Tournament(kinds, evaluation_readable, dans_readable) ==
    [evaluation |-> [readable |-> evaluation_readable,
                     rows |-> RowsUpTo(kinds, "evaluation", Len(kinds))],
     dans |-> [readable |-> dans_readable,
               rows |-> RowsUpTo(kinds, "dans", Len(kinds))]]

AllAgreed == [i \in Ordinals |-> "agreed"]

Tournaments ==
    {Tournament(kinds, TRUE, TRUE) : kinds \in [Ordinals -> SessionKinds]}
        \cup {Tournament(AllAgreed, FALSE, TRUE), Tournament(AllAgreed, TRUE, FALSE)}

\* The rows of all the lists of a list, in order: the nested loops of lines
\* 36-37 and 96-97.
RECURSIVE Flatten(_)
Flatten(lists) ==
    IF lists = <<>> THEN <<>> ELSE Head(lists) \o Flatten(Tail(lists))

RECURSIVE SumOf(_, _)
SumOf(rows, field) ==
    IF rows = <<>> THEN 0 ELSE Head(rows)[field] + SumOf(Tail(rows), field)

\* Lines 25-26: the number of rows of the first tournament that has any.
RECURSIVE FirstLength(_)
FirstLength(lists) ==
    IF lists = <<>> THEN 0
    ELSE IF Len(Head(lists)) # 0 THEN Len(Head(lists))
    ELSE FirstLength(Tail(lists))

\* Lines 35 and 95: the totals are a list of num_sessions + 1 entries; an
\* index past its end raises IndexError.
InRange(session_id) == session_id \in 0..num_sessions

\* Mutant of AgreeingRows: the rows of the domain of a session id.
AgreeingRowsOfDomain(session_id) ==
    SelectSeq(Flatten(evaluation_list),
              LAMBDA session : session.domain = DomainOfSession(session_id)
                               /\ session.agreement = "True")

\* Lines 38-50: the rows that add to the totals of a session id.
AgreeingRows(session_id) ==
    SelectSeq(Flatten(evaluation_list),
              LAMBDA session : session.session_id = session_id
                               /\ session.agreement = "True")

EvaluationTotal(session_id, field) == SumOf(AgreeingRows(session_id), field)

\* Mutant of Average: the total divided by the number of tournaments.
AverageOverTournaments(total, count) ==
    IF count # 0 THEN Divide(total, num_tournaments) ELSE [num |-> 0, den |-> 1]

\* Lines 75, 79, 83 and 87.
Average(total, count) ==
    IF count # 0 THEN Divide(total, count) ELSE [num |-> 0, den |-> 1]

\* Lines 55-88: the row made for one row of the first tournament.
EvaluationAggregateRow(session) ==
    LET session_id == session.session_id
        num_agreements == Len(AgreeingRows(session_id))
    IN  [session_id |-> session_id,
         domain |-> session.domain,
         agent_A |-> session.agent_A,
         agent_B |-> session.agent_B,
         num_agreements |-> num_agreements,
         num_tournaments |-> num_tournaments,
         utility_a |-> Average(EvaluationTotal(session_id, "utility_a"), num_agreements),
         utility_b |-> Average(EvaluationTotal(session_id, "utility_b"), num_agreements),
         distance_nash |->
             Average(EvaluationTotal(session_id, "distance_nash"), num_agreements),
         distance_kalai |->
             Average(EvaluationTotal(session_id, "distance_kalai"), num_agreements)]

\* Lines 34-88 raise IndexError: an agreeing row or a row of the first
\* tournament with a session id past the totals, or no tournament at all.
EvaluationRaises ==
    IF evaluation_list = <<>> THEN TRUE
    ELSE \/ \E i \in 1..Len(Flatten(evaluation_list)) :
              LET session == Flatten(evaluation_list)[i]
              IN  session.agreement = "True" /\ ~InRange(session.session_id)
         \/ \E i \in 1..Len(evaluation_list[1]) :
              ~InRange(evaluation_list[1][i].session_id)

\* Lines 98-99: the rows that add to the totals of a session id and an agent.
DansRowsOf(session_id, agent_id) ==
    SelectSeq(Flatten(dans_list),
              LAMBDA session : session.session_id = session_id
                               /\ session.agent = agent_id)

DansTotal(session_id, agent_id, field) == SumOf(DansRowsOf(session_id, agent_id), field)

\* list(dans_totals[session_id].keys()): the agent names of the rows of a
\* session id, each once, in the order they were first met.
RECURSIVE FirstMet(_, _)
FirstMet(rows, met) ==
    IF rows = <<>> THEN met
    ELSE IF \E k \in 1..Len(met) : met[k] = Head(rows).agent
         THEN FirstMet(Tail(rows), met)
         ELSE FirstMet(Tail(rows), Append(met, Head(rows).agent))

Keys(session_id) ==
    FirstMet(SelectSeq(Flatten(dans_list),
                       LAMBDA session : session.session_id = session_id), <<>>)

\* Line 130, counted from 1: the key picked for the i-th row.
KeyIndex(i) == ((i + 1) % 2) + 1

\* Lines 156-161 on the averages, whose common divisor cancels.
AggregateBehavSens(session_id, agent) ==
    LET numerator == DansTotal(session_id, agent, "fortunate_pct")
                        + DansTotal(session_id, agent, "nice_pct")
                        + DansTotal(session_id, agent, "concession_pct")
        denominator == DansTotal(session_id, agent, "unfortunate_pct")
                        + DansTotal(session_id, agent, "silent_pct")
                        + DansTotal(session_id, agent, "selfish_pct")
    IN  IF denominator = 0 THEN [text |-> "inf", num |-> 0, den |-> 1]
        ELSE [text |-> "", num |-> numerator, den |-> denominator]

\* Lines 122-165: the row made for the i-th row of the first tournament.
DansAggregateRow(i, session) ==
    LET session_id == session.session_id
        agent == Keys(session_id)[KeyIndex(i)]
    IN  [session_id |-> session_id,
         domain |-> session.domain,
         agent |-> agent,
         num_tournaments |-> num_tournaments,
         num_offers |-> DansTotal(session_id, agent, "num_offers"),
         fortunate_pct |-> Divide(DansTotal(session_id, agent, "fortunate_pct"), num_tournaments),
         selfish_pct |-> Divide(DansTotal(session_id, agent, "selfish_pct"), num_tournaments),
         concession_pct |->
             Divide(DansTotal(session_id, agent, "concession_pct"), num_tournaments),
         unfortunate_pct |->
             Divide(DansTotal(session_id, agent, "unfortunate_pct"), num_tournaments),
         nice_pct |-> Divide(DansTotal(session_id, agent, "nice_pct"), num_tournaments),
         silent_pct |-> Divide(DansTotal(session_id, agent, "silent_pct"), num_tournaments),
         behav_sens |-> AggregateBehavSens(session_id, agent),
         pref_sens |-> Divide(DansTotal(session_id, agent, "pref_sens"), num_tournaments)]

\* Lines 94-165 raise IndexError: a row with a session id past the totals,
\* or a row of the first tournament whose session id has too few keys.
DansRaises ==
    \/ \E i \in 1..Len(Flatten(dans_list)) : ~InRange(Flatten(dans_list)[i].session_id)
    \/ \E i \in 1..Len(dans_list[1]) :
          Len(Keys(dans_list[1][i].session_id)) < KeyIndex(i)

\* Lines 9-32: the files of every tournament directory are opened and read;
\* open raises on a file that is absent or unreadable.
ReadTournaments ==
    /\ pc = "main"
    /\ IF \E i \in 1..Len(results_dir) :
            ~results_dir[i].evaluation.readable \/ ~results_dir[i].dans.readable
       THEN /\ pc' = "raised"
            /\ UNCHANGED <<evaluation_list, dans_list, num_tournaments, num_sessions>>
       ELSE /\ pc' = "evaluation"
            /\ evaluation_list' = [i \in 1..Len(results_dir) |-> results_dir[i].evaluation.rows]
            /\ dans_list' = [i \in 1..Len(results_dir) |-> results_dir[i].dans.rows]
            /\ num_tournaments' = Len(results_dir)
            /\ num_sessions' =
                   FirstLength([i \in 1..Len(results_dir) |-> results_dir[i].evaluation.rows])
    /\ UNCHANGED <<partyVars, appendVars, evaluateVars, results_dir, aggregate_files, rerunVars>>

\* Lines 34-92: the evaluation totals, and aggregate_evaluation.csv.
AggregateEvaluation ==
    /\ pc = "evaluation"
    /\ IF EvaluationRaises
       THEN /\ pc' = "raised"
            /\ UNCHANGED aggregate_files
       ELSE /\ pc' = "dans"
            /\ aggregate_files' =
                   [aggregate_files EXCEPT !["aggregate_evaluation.csv"] =
                       [written |-> TRUE,
                        rows |-> [i \in 1..Len(evaluation_list[1]) |->
                                     EvaluationAggregateRow(evaluation_list[1][i])]]]
    /\ UNCHANGED <<partyVars, appendVars, evaluateVars, results_dir, evaluation_list, dans_list,
                   num_tournaments, num_sessions, rerunVars>>

\* Lines 94-169: the Dans totals, and dans_evaluation.csv.
AggregateDans ==
    /\ pc = "dans"
    /\ IF DansRaises
       THEN /\ pc' = "raised"
            /\ UNCHANGED aggregate_files
       ELSE /\ pc' = "written"
            /\ aggregate_files' =
                   [aggregate_files EXCEPT !["dans_evaluation.csv"] =
                       [written |-> TRUE,
                        rows |-> [i \in 1..Len(dans_list[1]) |->
                                     DansAggregateRow(i, dans_list[1][i])]]]
    /\ UNCHANGED <<partyVars, appendVars, evaluateVars, results_dir, evaluation_list, dans_list,
                   num_tournaments, num_sessions, rerunVars>>

\* evaluate is not run.
NoEvaluate ==
    /\ specials_file = MissingSpecials
    /\ key_order = agents
    /\ domain = "domain00"
    /\ pareto_front = <<>>
    /\ kalai_utility = <<0, 0>>
    /\ nash_utility = <<0, 0>>
    /\ EvaluateLocals
    /\ NoCall

\* main is entered: ../results/ holds some tournament directories, listed in
\* some order, and neither aggregate is written.
InitAggregate ==
    /\ pc = "main"
    /\ results_dir \in SeqsUpTo(Tournaments, MaxTournaments)
    /\ evaluation_list = <<>>
    /\ dans_list = <<>>
    /\ num_tournaments = 0
    /\ num_sessions = 0
    /\ aggregate_files = [f \in {"aggregate_evaluation.csv", "dans_evaluation.csv"} |->
                            [written |-> FALSE, rows |-> <<>>]]
    /\ NoEvaluate
    /\ FirstRun
    /\ NoAppend
    /\ NoParty

NextAggregate == ReadTournaments \/ AggregateEvaluation \/ AggregateDans

SpecAggregate == InitAggregate /\ [][NextAggregate]_vars

\* What a run of main left: whether it raised, and the aggregates it wrote.
MainOutcome == [raised |-> pc = "raised", aggregates |-> aggregate_files]

\* Line 12: the same directories as iterdir may yield them another time.
Reorderings(listing) ==
    LET n == Len(listing)
        orders == {p \in [1..n -> 1..n] : \A i, j \in 1..n : p[i] = p[j] => i = j}
    IN  {[i \in 1..n |-> listing[p[i]]] : p \in orders}

\* main has ended and is run once more on the same tournament directories,
\* which iterdir now yields in another order; the aggregates of the earlier
\* run are kept aside.
RunReordered ==
    /\ pc \in {"written", "raised"}
    /\ previous_run = <<>>
    /\ previous_run' = <<MainOutcome>>
    /\ \E listing \in Reorderings(results_dir) :
        /\ listing # results_dir
        /\ results_dir' = listing
    /\ pc' = "main"
    /\ evaluation_list' = <<>>
    /\ dans_list' = <<>>
    /\ num_tournaments' = 0
    /\ num_sessions' = 0
    /\ aggregate_files' = [f \in DOMAIN aggregate_files |-> [written |-> FALSE, rows |-> <<>>]]
    /\ UNCHANGED <<partyVars, appendVars, evaluateVars, replay>>

NextReorder == NextAggregate \/ RunReordered

SpecReorder == InitAggregate /\ [][NextReorder]_vars

\* ----------------------------------------------------------- append_metrics
\* The session ordinals a caller passes, as the CSV writes them.
SessionIds == {"1", "2", "3"}

\* What evaluate returned for a session, as append_metrics receives it:
\* metrics[0], the evaluation dictionary in insertion order, and metrics[1],
\* the Dans dictionary of two-element lists; every value as its CSV cell.
SessionMetrics ==
    { [evaluation |-> <<<<"agreement", "True">>, <<"num_moves", "4">>>>,
       dans |-> <<<<"agent", <<"A", "B">>>>, <<"behav_sens", <<"50.0", "200.0">>>>>>],
      [evaluation |-> <<<<"agreement", "False">>, <<"num_moves", "6">>>>,
       dans |-> <<<<"agent", <<"A", "B">>>>, <<"behav_sens", <<"0.0", "100.0">>>>>>] }

\* Lines 290-294: the columns and the row of the one-row evaluation frame.
EvaluationColumns(metrics) ==
    <<"session_id">> \o [i \in 1..Len(metrics.evaluation) |-> metrics.evaluation[i][1]]

EvaluationRow(session_id, metrics) ==
    <<session_id>> \o [i \in 1..Len(metrics.evaluation) |-> metrics.evaluation[i][2]]

\* Lines 301-304: the columns and the two rows of the Dans frame.
DansColumns(metrics) ==
    <<"session_id">> \o [i \in 1..Len(metrics.dans) |-> metrics.dans[i][1]]

DansRows(session_id, metrics) ==
    [r \in 1..2 |->
        <<session_id>> \o [i \in 1..Len(metrics.dans) |-> metrics.dans[i][2][r]]]

\* to_csv asked for the header whatever the file holds.
to_csv_with_header(file, columns, rows, header) ==
    [exists |-> TRUE, lines |-> file.lines \o <<columns>> \o rows]

\* DataFrame.to_csv(path, index=False, mode='a', header=h): the file is
\* opened for appending, which creates it, and the header line, when asked
\* for, and the rows reach it in one write.
to_csv(file, columns, rows, header) ==
    [exists |-> TRUE,
     lines |-> file.lines \o (IF header THEN <<columns>> ELSE <<>>) \o rows]

\* A caller that has entered append_metrics and stands before line 299.
Caller(session_id, metrics) ==
    [session_id |-> session_id, metrics |-> metrics, line |-> 299, header |-> FALSE]

Returned(w) == workers[w].line = 0

\* append_metrics is called after every earlier call has returned.
CallAppendMetrics ==
    /\ pc = "append_metrics"
    /\ Len(workers) < MaxCalls
    /\ \A w \in DOMAIN workers : Returned(w)
    /\ \E session_id \in SessionIds, metrics \in SessionMetrics :
        workers' = Append(workers, Caller(session_id, metrics))
    /\ UNCHANGED <<pc, tournament_files, evaluateVars, aggVars, rerunVars, partyVars>>

\* append_metrics is called for another session by a process of its own,
\* whatever line the earlier callers have reached.
CallAppendMetricsInParallel ==
    /\ pc = "append_metrics"
    /\ Len(workers) < MaxWorkers
    /\ \E session_id \in SessionIds, metrics \in SessionMetrics :
        /\ \A w \in DOMAIN workers : workers[w].session_id # session_id
        /\ workers' = Append(workers, Caller(session_id, metrics))
    /\ UNCHANGED <<pc, tournament_files, evaluateVars, aggVars, rerunVars, partyVars>>

\* Line 299, the argument: header = not evaluation_filepath.exists().
EvaluationExists(w) ==
    /\ workers[w].line = 299
    /\ workers' = [workers EXCEPT ![w].header =
                       ~tournament_files["tournament_evaluation.csv"].exists,
                                  ![w].line = 300]
    /\ UNCHANGED tournament_files

\* Line 299, the call: the row is appended to tournament_evaluation.csv.
EvaluationToCsv(w) ==
    /\ workers[w].line = 300
    /\ tournament_files' =
           [tournament_files EXCEPT !["tournament_evaluation.csv"] =
               to_csv(@, EvaluationColumns(workers[w].metrics),
                      <<EvaluationRow(workers[w].session_id, workers[w].metrics)>>,
                      workers[w].header)]
    /\ workers' = [workers EXCEPT ![w].line = 306]

\* Line 306, the argument: header = not dans_filepath.exists().
DansExists(w) ==
    /\ workers[w].line = 306
    /\ workers' = [workers EXCEPT ![w].header =
                       ~tournament_files["tournament_dans.csv"].exists,
                                  ![w].line = 307]
    /\ UNCHANGED tournament_files

\* Line 306, the call: the two rows are appended to tournament_dans.csv, and
\* append_metrics returns.
DansToCsv(w) ==
    /\ workers[w].line = 307
    /\ tournament_files' =
           [tournament_files EXCEPT !["tournament_dans.csv"] =
               to_csv(@, DansColumns(workers[w].metrics),
                      DansRows(workers[w].session_id, workers[w].metrics),
                      workers[w].header)]
    /\ workers' = [workers EXCEPT ![w].line = 0]

\* A caller of append_metrics runs its next line.
AppendMetricsStep ==
    /\ pc = "append_metrics"
    /\ \E w \in DOMAIN workers :
        IF workers[w].line = 299 THEN EvaluationExists(w)
        ELSE IF workers[w].line = 300 THEN EvaluationToCsv(w)
        ELSE IF workers[w].line = 306 THEN DansExists(w)
        ELSE IF workers[w].line = 307 THEN DansToCsv(w)
        ELSE FALSE
    /\ UNCHANGED <<pc, evaluateVars, aggVars, rerunVars, partyVars>>

\* The output directory is empty and nobody has called append_metrics.
InitAppend ==
    /\ pc = "append_metrics"
    /\ NoAppend
    /\ NoEvaluate
    /\ NoAggregate
    /\ FirstRun
    /\ NoParty

NextAppend == CallAppendMetrics \/ AppendMetricsStep

SpecAppend == InitAppend /\ [][NextAppend]_vars

NextWorkers == CallAppendMetricsInParallel \/ AppendMetricsStep

SpecWorkers == InitAppend /\ [][NextWorkers]_vars

\* ------------------------------------------------- SimpleAgent and Agent61
\* The two party classes, and the two party identifiers of a session as seen
\* by the agent: its own (self.me) and the opponent's.
Parties == {"SimpleAgent", "Agent61"}

Me == "me"

Opponent == "opponent"

\* Utilities are counted in quarters, which Decimal and float both hold
\* exactly; a bid is its position in AllBidsList(domain), from 1.
LargeDomainSize == 402

LargeProfile == [bid \in 1..LargeDomainSize |-> bid % 5]

\* The profiles a Settings message may name: two bids; three bids, two of
\* them of one utility; and a domain of more bids than Agent61 splits off.
Profiles == {<<2, 4>>, <<3, 4, 3>>, LargeProfile}

\* profile.getReservationBid(): None or a bid of the domain.
ReservationBids == {None, 1, 2}

\* self.progress.get(time() * 1000) in hundredths: the clock does not go back.
Progresses == {0, 95, 100}

Utility(bid) == profile[bid]

\* The bids in the order of AllBidsList, unsorted.
AllBidsListOrder(prof) == [b \in DOMAIN prof |-> b]

\* sorted(bids, key=getUtility, reverse=True) over AllBidsList: by utility,
\* highest first, bids of one utility in the order they had (the sort is stable,
\* also when reversed).
SortedByUtility(prof) ==
    LET bids == [b \in DOMAIN prof |-> b]
        OfUtility(u) == SelectSeq(bids, LAMBDA b : prof[b] = u)
    IN  OfUtility(4) \o OfUtility(3) \o OfUtility(2) \o OfUtility(1) \o OfUtility(0)

Offer(bid) == [kind |-> "Offer", bid |-> bid]

Accept(bid) == [kind |-> "Accept", bid |-> bid]

\* The actions an ActionDone may report: an Offer or an Accept of the agent
\* itself or of the opponent.
ActionsDone ==
    {[actor |-> Me, action |-> Offer(1)], [actor |-> Me, action |-> Accept(2)],
     [actor |-> Opponent, action |-> Offer(1)], [actor |-> Opponent, action |-> Offer(2)],
     [actor |-> Opponent, action |-> Accept(2)]}

\* An agent of either class is constructed (__init__ of both classes).
InitParty ==
    /\ pc = "constructed"
    /\ party \in Parties
    /\ profile = <<>>
    /\ reservation_bid = None
    /\ last_received_bid = None
    /\ all_bids = <<>>
    /\ current_bid_index = -1
    /\ best_bids = NoList
    /\ all_best_bids = NoList
    /\ opponent_model = FALSE
    /\ progress = 0
    /\ sent = <<>>
    /\ found = <<>>
    /\ notified = 0
    /\ opponent_offer = None
    /\ NoAppend
    /\ NoEvaluate
    /\ NoAggregate
    /\ FirstRun

\* notifyChange(Settings), the first message of a session: the profile and
\* its reservation bid are taken over.
Settings ==
    /\ pc = "constructed"
    /\ pc' = "negotiating"
    /\ \E prof \in Profiles, reservation \in ReservationBids :
        /\ profile' = prof
        /\ reservation_bid' = reservation
    /\ notified' = notified + 1
    /\ UNCHANGED <<opponent_offer, party, last_received_bid, all_bids, current_bid_index, best_bids,
                   all_best_bids, opponent_model, progress, sent, found>>
    /\ UNCHANGED <<evaluateVars, aggVars, rerunVars, appendVars>>

\* Every action of the opponent is taken for an Offer.
EveryOpponentAction(done) == done.actor # Me

\* Lines 66-67 and 118 (SimpleAgent), 96 and 153 (Agent61): the action is
\* not the agent's own, and it is an Offer.
IsOpponentOffer(done) == done.actor # Me /\ done.action.kind = "Offer"

\* notifyChange(ActionDone): an action of the agent itself is ignored; of an
\* opponent's action only an Offer is looked at, whose bid becomes
\* last_received_bid (process_opponent_action, opponent_action). Agent61
\* creates its opponent model at the first Offer.
ActionDone ==
    /\ pc = "negotiating"
    /\ notified <= MaxNotifications
    /\ notified' = notified + 1
    /\ \E done \in ActionsDone :
        /\ IF IsOpponentOffer(done)
           THEN /\ last_received_bid' = done.action.bid
                /\ opponent_model' = (party = "Agent61")
           ELSE UNCHANGED <<last_received_bid, opponent_model>>
        /\ opponent_offer' = IF done = [actor |-> Opponent, action |-> Offer(1)] THEN 1
                             ELSE IF done = [actor |-> Opponent, action |-> Offer(2)] THEN 2
                             ELSE opponent_offer
    /\ UNCHANGED <<pc, party, profile, reservation_bid, all_bids, current_bid_index,
                   best_bids, all_best_bids, progress, sent, found>>
    /\ UNCHANGED <<evaluateVars, aggVars, rerunVars, appendVars>>

\* SimpleAgent.find_bid, lines 165-170: at the first call all bids of the
\* domain are sorted by utility, highest first, and the index is set to 0.
SortedOnFirstCall == IF current_bid_index < 0 THEN SortedByUtility(profile) ELSE all_bids

IndexOnCall == IF current_bid_index < 0 THEN 0 ELSE current_bid_index

\* SimpleAgent.find_bid, line 172: all_bids[current_bid_index] raises
\* IndexError when the index is past the end of the list.
FindBidRaises == IndexOnCall >= Len(SortedOnFirstCall)

\* SimpleAgent.is_acceptable(received_bid, bid), at the clock reading p.
is_acceptable(received_bid, bid, p) ==
    IF received_bid = None THEN FALSE
    ELSE IF Utility(received_bid) >= Utility(bid) THEN TRUE
    ELSE IF p < 95 THEN FALSE
    ELSE IF reservation_bid = None THEN TRUE
    ELSE IF Utility(received_bid) >= Utility(reservation_bid) THEN TRUE
    ELSE FALSE

\* is_acceptable reads the clock only when the received bid is there and is
\* worth less than the bid.
ReadsProgress(received_bid, bid) ==
    received_bid # None /\ Utility(received_bid) < Utility(bid)

\* notifyChange(YourTurn) of SimpleAgent, execute_turn: find_bid takes the
\* next bid of the sorted list and moves the index on, then the received bid
\* is accepted or the bid is offered. An IndexError of find_bid ends the
\* handler before anything is sent.
execute_turn ==
    /\ pc = "negotiating"
    /\ party = "SimpleAgent"
    /\ notified <= MaxNotifications
    /\ notified' = notified + 1
    /\ all_bids' = SortedOnFirstCall
    /\ IF FindBidRaises
       THEN /\ pc' = "raised"
            /\ current_bid_index' = IndexOnCall
            /\ UNCHANGED <<progress, sent, found>>
       ELSE LET bid == SortedOnFirstCall[IndexOnCall + 1]
            IN  /\ pc' = pc
                /\ current_bid_index' = IndexOnCall + 1
                /\ found' = Append(found, bid)
                /\ \E p \in {q \in Progresses : q >= progress} :
                    /\ progress' = IF ReadsProgress(last_received_bid, bid)
                                   THEN p ELSE progress
                    /\ sent' = Append(sent,
                                 IF is_acceptable(last_received_bid, bid, p)
                                 THEN Accept(last_received_bid) ELSE Offer(bid))
    /\ UNCHANGED <<party, profile, reservation_bid, last_received_bid, best_bids,
                   all_best_bids, opponent_model, opponent_offer>>
    /\ UNCHANGED <<evaluateVars, aggVars, rerunVars, appendVars>>

\* Agent61.get_bids, lines 218-222: at the first call the bids of the domain
\* are sorted by utility, highest first; the first split_off of them become
\* best_bids and the others all_best_bids.
SplitOffFloor == 400

split_off(size) == Max2(size \div 100, SplitOffFloor)

Min2(a, b) == IF a <= b THEN a ELSE b

BestBidsOnCall ==
    IF best_bids = NoList
    THEN SubSeq(SortedByUtility(profile), 1, Min2(split_off(Len(profile)), Len(profile)))
    ELSE best_bids

AllBestBidsOnCall ==
    IF best_bids = NoList
    THEN SubSeq(SortedByUtility(profile), split_off(Len(profile)) + 1, Len(profile))
    ELSE all_best_bids

\* Agent61.get_bids, lines 224-231: max(len(best_bids), 100) bids are drawn
\* with randint and put after best_bids. The draws considered all fall on one
\* bid: the first, the second or the last of AllBidsList.
DrawsAtLeast == 100

RandomDraws == {1, 2, Len(profile)}

candidate_bids(best, drawn) ==
    best \o [i \in 1..Max2(Len(best), DrawsAtLeast) |-> drawn]

\* Agent61.score_bid at the clock reading p: time_pressure = 1 - progress **
\* 1000 is 1.0 in floating point up to progress 0.95 and 0.0 at the deadline.
\* Without an opponent model the score is 0.95 * time_pressure * utility.
\* With one, (1 - 0.95 * time_pressure) * predicted utility is added, where
\* the prediction is the opponent model's and lies between 0 and 1: before the
\* deadline at most 0.05, less than the quarter two utilities differ by, so
\* that it orders the bids of one utility only; at the deadline it is the
\* whole score.
\* Line 208, sorted(candidate_bids, key=score, reverse=True)[0]: the
\* candidates that can come first, in the order of candidate_bids.
Quarters == 0..4

Eligible(candidates, p) ==
    LET highest == CHOOSE u \in Quarters :
                       /\ \E i \in DOMAIN candidates : Utility(candidates[i]) = u
                       /\ \A i \in DOMAIN candidates : Utility(candidates[i]) <= u
    IN  SelectSeq(candidates, LAMBDA b : p >= 100 \/ Utility(b) = highest)

\* The sort is stable: without an opponent model the first of the eligible
\* candidates wins; with one, the predictions considered favour the first or
\* the last of them.
BestBids(candidates, p) ==
    LET eligible == Eligible(candidates, p)
    IN  IF opponent_model
        THEN {eligible[1], eligible[Len(eligible)]}
        ELSE {eligible[1]}

InList(bid, list) == \E i \in DOMAIN list : list[i] = bid

Remove(list, bid) == SelectSeq(list, LAMBDA b : b # bid)

\* Agent61.find_bid, lines 209-213: a chosen bid that is in best_bids is
\* removed from it, and then, if all_best_bids holds more than one bid, its
\* first bid is moved to the end of best_bids.
BestBidsAfter(best, rest, best_bid) ==
    IF InList(best_bid, best)
    THEN IF Len(rest) > 1
         THEN Append(Remove(best, best_bid), Head(rest))
         ELSE Remove(best, best_bid)
    ELSE best

AllBestBidsAfter(best, rest, best_bid) ==
    IF InList(best_bid, best) /\ Len(rest) > 1 THEN Tail(rest) ELSE rest

\* Agent61.accept_condition(received_bid, next_bid) at the clock reading p:
\* received >= (1 - 0.25 * progress) * possible and received >= reserve,
\* where reserve is 0.5 without a reservation bid. In quarters and hundredths
\* the first comparison is 400 * received >= (400 - p) * possible; the two
\* sides are equal only where the floating-point product is exact.
accept_condition(received_bid, next_bid, p) ==
    IF received_bid = None THEN FALSE
    ELSE LET reserve_value == IF reservation_bid # None
                              THEN Utility(reservation_bid) ELSE 2
         IN  /\ 400 * Utility(received_bid) >= (400 - p) * Utility(next_bid)
             /\ Utility(received_bid) >= reserve_value

\* notifyChange(YourTurn) of Agent61, my_turn: find_bid picks the best of
\* best_bids and the drawn bids, then the received bid is accepted or the bid
\* is offered.
my_turn ==
    /\ pc = "negotiating"
    /\ party = "Agent61"
    /\ notified <= MaxNotifications
    /\ notified' = notified + 1
    /\ LET best == BestBidsOnCall
           rest == AllBestBidsOnCall
       IN  \E drawn \in RandomDraws, p \in {q \in Progresses : q >= progress} :
            \E bid \in BestBids(candidate_bids(best, drawn), p) :
            /\ progress' = p
            /\ best_bids' = BestBidsAfter(best, rest, bid)
            /\ all_best_bids' = AllBestBidsAfter(best, rest, bid)
            /\ found' = Append(found, bid)
            /\ sent' = Append(sent, IF accept_condition(last_received_bid, bid, p)
                                    THEN Accept(last_received_bid) ELSE Offer(bid))
    /\ UNCHANGED <<pc, party, profile, reservation_bid, last_received_bid, all_bids,
                   current_bid_index, opponent_model, opponent_offer>>
    /\ UNCHANGED <<evaluateVars, aggVars, rerunVars, appendVars>>

NextParty == Settings \/ ActionDone \/ execute_turn \/ my_turn

SpecParty == InitParty /\ [][NextParty]_vars

\* ------------------------------------------------------------------- claims
\* What the claims read off a state.
Other(agent) == IF agent = AgentA THEN AgentB ELSE AgentA

SixCounts(agent) ==
    <<fortunate_moves[agent], selfish_moves[agent], concession_moves[agent],
      unfortunate_moves[agent], nice_moves[agent], silent_moves[agent]>>

SumOfCounts(agent) ==
    fortunate_moves[agent] + selfish_moves[agent] + concession_moves[agent]
        + unfortunate_moves[agent] + nice_moves[agent] + silent_moves[agent]

\* The utility pairs of the Offers of one actor in a trace, in trace order.
RECURSIVE OffersOf(_, _)
OffersOf(agent, trace) ==
    IF trace = <<>> THEN <<>>
    ELSE LET first == Head(trace)
         IN  IF first.kind = "Offer" /\ first.actor = agent
             THEN <<UtilityList(first)>> \o OffersOf(agent, Tail(trace))
             ELSE OffersOf(agent, Tail(trace))

HasAccept(trace) == \E i \in 1..Len(trace) : trace[i].kind = "Accept"

DeltasFile(agent) == files[<<"deltas", NameOf(agent)>>]

\* The step just taken passed an Offer (an Accept) of the given actor.
OfferStepBy(agent) ==
    /\ Len(actions') = Len(actions) + 1
    /\ actions'[Len(actions')].kind = "Offer"
    /\ actions'[Len(actions')].actor = agent

AcceptStepBy(agent) ==
    /\ Len(actions') = Len(actions) + 1
    /\ actions'[Len(actions')].kind = "Accept"
    /\ actions'[Len(actions')].actor = agent

\* C1: at every point of the pass and for each actor, the six class counts
\* add up to num_moves, which is the number of Offers of that actor passed.
C1_CountsSumToMoves ==
    \A a \in Actors :
        /\ SumOfCounts(a) = num_moves[a]
        /\ num_moves[a] = Len(OffersOf(a, actions))

\* C1 witness: an actor with three tallied Offers in three different classes.
C1_Witness ==
    \E a \in Actors :
        /\ num_moves[a] = 3
        /\ fortunate_moves[a] = 1
        /\ selfish_moves[a] = 1
        /\ unfortunate_moves[a] = 1

\* The class the ordered first-match table of the specification assigns.
TableClass(dA, dB) ==
    IF dA > 0 /\ dB > 0 THEN 1
    ELSE IF dA > 0 /\ dB <= 0 THEN 2
    ELSE IF dA < 0 /\ dB >= 0 THEN 3
    ELSE IF dA <= 0 /\ dB < 0 THEN 4
    ELSE IF dA = 0 /\ dB > 0 THEN 5
    ELSE IF dA = 0 /\ dB = 0 THEN 6
    ELSE 0

OneHot(class) == [k \in 1..6 |-> IF k = class THEN 1 ELSE 0]

\* C2: every Offer increments exactly the one counter the first-match table
\* assigns to its pair of deltas (new pair minus the actor's stored pair),
\* and no other counter.
C2_ExactlyTheTableClass ==
    [][\A a \in Actors :
        OfferStepBy(a) =>
            LET dA == utility_a'[a] - utility_a[a]
                dB == utility_b'[a] - utility_b[a]
            IN  /\ TableClass(dA, dB) \in 1..6
                /\ \A k \in 1..6 :
                    SixCounts(a)'[k] - SixCounts(a)[k] = OneHot(TableClass(dA, dB))[k]]_vars

\* C2 witness: a move with deltaA = 0 and deltaB < 0 was tallied (as
\* unfortunate), and one with both deltas 0 (as silent).
C2_Witness ==
    \E a \in Actors :
        /\ \E i \in 1..Len(DeltasFile(a)) :
            DeltasFile(a)[i][1] = 0 /\ DeltasFile(a)[i][2] < 0
        /\ \E i \in 1..Len(DeltasFile(a)) : DeltasFile(a)[i] = <<0, 0>>
        /\ unfortunate_moves[a] >= 1
        /\ silent_moves[a] >= 1

\* The pair an actor's next Offer is compared with: its own latest Offer in
\* the trace, or (0, 0) before its first.
OwnPrevious(agent, trace) ==
    LET own == OffersOf(agent, trace)
    IN  IF own = <<>> THEN <<0, 0>> ELSE own[Len(own)]

Scenario == <<U(5, 5), U(6, 4), U(6, 4)>>

\* C3: the stored previous pair of an actor is that actor's own latest Offer
\* ((0,0) before its first); the deltas of an Offer are taken against it; an
\* Offer of one actor leaves the other actor's pair and counters alone; and
\* an actor offering (0.5,0.5), (0.6,0.4), (0.6,0.4), whatever the opponent
\* offers in between, is tallied fortunate, selfish, silent.
C3_OwnPreviousOffer ==
    /\ [](\A a \in Actors :
            /\ <<utility_a[a], utility_b[a]>> = OwnPrevious(a, actions)
            /\ OffersOf(a, actions) = Scenario => SixCounts(a) = <<1, 1, 0, 0, 0, 1>>)
    /\ [][\A a \in Actors :
            OfferStepBy(a) =>
                LET new == UtilityList(actions'[Len(actions')])
                    row == DeltasFile(a)'[Len(DeltasFile(a)')]
                IN  /\ row = <<new[1] - OwnPrevious(a, actions)[1],
                               new[2] - OwnPrevious(a, actions)[2]>>
                    /\ utility_a'[Other(a)] = utility_a[Other(a)]
                    /\ utility_b'[Other(a)] = utility_b[Other(a)]
                    /\ SixCounts(Other(a))' = SixCounts(Other(a))
                    /\ num_moves'[Other(a)] = num_moves[Other(a)]
                    /\ total_distance'[Other(a)] = total_distance[Other(a)]]_vars

\* C3 witness: the three scenario Offers of one actor with an Offer of the
\* opponent in between.
C3_Witness ==
    \E a \in Actors :
        /\ OffersOf(a, actions) = Scenario
        /\ Len(actions) = 4
        /\ actions[2].actor = Other(a)
        /\ actions[2].kind = "Offer"
        /\ SixCounts(a) = <<1, 1, 0, 0, 0, 1>>

\* C4: passing an Accept sets agreement, records the accepting actor and the
\* Accept's utility pair, and leaves every actor's offer count, class
\* counters, previous pair and running distance total unchanged.
C4_AcceptFrame ==
    [][\A a \in Actors :
        AcceptStepBy(a) =>
            /\ agreement' = TRUE
            /\ agreement_actor' = NameOf(a)
            /\ agreement_utility' = UtilityList(actions'[Len(actions')])
            /\ num_moves' = num_moves
            /\ \A b \in Actors : SixCounts(b)' = SixCounts(b)
            /\ utility_a' = utility_a
            /\ utility_b' = utility_b
            /\ total_distance' = total_distance]_vars

\* C4 witness: an Accept was passed after Offers of both actors.
C4_Witness ==
    /\ Len(actions) = 3
    /\ actions[3].kind = "Accept"
    /\ agreement
    /\ agreement_utility = U(6, 4)
    /\ agreement_actor = NameOf(actions[3].actor)
    /\ \A a \in Actors : num_moves[a] = 1

Zero == Finite(BigZero)

\* C5: with no Accept in the trace the evaluation metrics hold agreement =
\* False, utility_a = utility_b = 0 and distance_nash = distance_kalai = 0.
C5_NoAcceptAllZero ==
    (pc = "done" /\ ~HasAccept(actions)) =>
        LET m == evaluation_metrics[1]
        IN  /\ m.agreement = FALSE
            /\ m.utility_a = 0
            /\ m.utility_b = 0
            /\ m.distance_nash = Zero
            /\ m.distance_kalai = Zero

\* The least of a set of distances, float("inf") for the empty set.
LeastOf(D) ==
    IF D = {} THEN Inf
    ELSE CHOOSE d \in D : \A e \in D : ~DistLess(e, d)

\* The call's bid as (self, opp) and a frontier point as (self, opp).
CallSelf == arg_utility[arg_is_b + 1]

CallOpp == arg_utility[2 - arg_is_b]

PointSelf(i) == arg_front[i].utility[arg_is_b + 1]

PointOpp(i) == arg_front[i].utility[2 - arg_is_b]

DistanceTo(i) == distance(<<CallSelf, CallOpp>>, <<PointSelf(i), PointOpp(i)>>)

Dominating == {i \in 1..Len(arg_front) : PointSelf(i) >= CallSelf /\ PointOpp(i) >= CallOpp}

DominatingOrClose ==
    {i \in 1..Len(arg_front) :
        /\ PointSelf(i) >= CallSelf \/ IsClose(PointSelf(i), CallSelf)
        /\ PointOpp(i) >= CallOpp \/ IsClose(PointOpp(i), CallOpp)}

\* C6 as claimed: the result is the least distance to the frontier points
\* that are >= the bid for both seats, +infinity when there is none; no other
\* point influences it.
C6_LeastOverDominating ==
    pc = "return" => result = LeastOf({DistanceTo(i) : i \in Dominating})

\* C6 as amended: the same with ">= or math.isclose" for both seats.
C6_LeastOverDominatingOrClose ==
    pc = "return" => result = LeastOf({DistanceTo(i) : i \in DominatingOrClose})

\* C6 witness: a frontier of two points, one of them rejected, and a finite
\* result other than 0 decided by the other, which is below the bid by one
\* step and admitted as close.
C6_Witness ==
    /\ pc = "return"
    /\ Len(arg_front) = 2
    /\ Cardinality(DominatingOrClose) = 1
    /\ Dominating = {}
    /\ ~result.inf
    /\ result # Zero

\* C7: the result is never negative, and it is 0 exactly when the bid's
\* utility pair is the utility pair of some point of the frontier.
C7_ZeroIffOnFrontier ==
    pc = "return" =>
        /\ result.inf \/ (result.sq[1] >= 0 /\ result.sq[2] >= 0)
        /\ (result = Zero) <=> (\E i \in 1..Len(arg_front) : arg_front[i].utility = arg_utility)

\* C7 witness: seat B bids a pair with unequal utilities that lies on the
\* frontier, after a frontier point that is no candidate, and gets 0.
C7_Witness ==
    /\ pc = "return"
    /\ arg_is_b = 1
    /\ arg_utility[1] # arg_utility[2]
    /\ Len(arg_front) = 2
    /\ arg_front[2].utility = arg_utility
    /\ arg_front[1].utility # arg_utility
    /\ result = Zero

\* The finite Pareto distances of the Offers of one actor, in trace order.
RECURSIVE FiniteDistancesOf(_, _)
FiniteDistancesOf(agent, offers) ==
    IF offers = <<>> THEN <<>>
    ELSE LET d == distance_pareto(Head(offers), IndexOf(agents, agent), pareto_front)
         IN  (IF d.inf THEN <<>> ELSE <<d.sq>>) \o FiniteDistancesOf(agent, Tail(offers))

\* C8: the pref_sens evaluate reports is finite: it is the total of the
\* finite Pareto distances of the actor's Offers over num_offers, and 0 for
\* an actor without Offers; an infinite distance is left out of the total.
C8_PrefSensFinite ==
    pc = "done" =>
        \A i \in 1..Len(agents) :
            LET a == agents[i]
                p == dans_metrics[i].pref_sens
            IN  /\ ~p.inf
                /\ p.terms = FiniteDistancesOf(a, OffersOf(a, actions))
                /\ p.den = IF num_moves[a] = 0 THEN 1 ELSE num_moves[a]

ZeroPercent(q) == q.num = 0 /\ q.den > 0

SixPercentages(row) ==
    {row.fortunate_pct, row.selfish_pct, row.concession_pct,
     row.unfortunate_pct, row.nice_pct, row.silent_pct}

C10_PercentagesAndBehavSens ==
    pc = "done" =>
        \A i \in 1..Len(agents) :
            LET a == agents[i]
                row == dans_metrics[i]
                coop == fortunate_moves[a] + nice_moves[a] + concession_moves[a]
                comp == unfortunate_moves[a] + silent_moves[a] + selfish_moves[a]
            IN  /\ \A q \in SixPercentages(row) :
                    q.den > 0 /\ 0 <= q.num /\ q.num <= 100 * q.den
                /\ (row.behav_sens.text = "inf") <=> (comp = 0)
                /\ comp # 0 =>
                    /\ row.behav_sens.text = ""
                    /\ row.behav_sens.den > 0
                    /\ row.behav_sens.num >= 0
                    /\ row.behav_sens.num * comp = coop * row.behav_sens.den

\* C10 witness: one actor with a fortunate, a selfish and a silent move and a
\* ratio of 1/2, the other with one fortunate move and the sentinel.
C10_Witness ==
    /\ pc = "done"
    /\ \E i \in 1..Len(agents) :
        /\ dans_metrics[i].behav_sens.text = ""
        /\ dans_metrics[i].behav_sens.num = 1
        /\ dans_metrics[i].behav_sens.den = 2
        /\ selfish_moves[agents[i]] = 1
        /\ silent_moves[agents[i]] = 1
    /\ \E i \in 1..Len(agents) :
        /\ dans_metrics[i].behav_sens.text = "inf"
        /\ dans_metrics[i].num_offers = 1

\* The utility an actor itself draws from a pair listed in seat order.
OwnUtility(agent, pair) == pair[IndexOf(agents, agent) + 1]

\* C11: whenever an Offer is tallied as a concession, the offering actor's
\* own utility is strictly lower than in that actor's previous Offer, for
\* the actor in seat A and the actor in seat B alike.
C11_ConcessionLowersOwnUtility ==
    [][\A a \in Actors :
        (OfferStepBy(a) /\ concession_moves'[a] = concession_moves[a] + 1) =>
            OwnUtility(a, <<utility_a'[a], utility_b'[a]>>)
                < OwnUtility(a, OwnPrevious(a, actions))]_vars

\* The value the utilities mapping of an action holds under a key.
ValueOf(action, key) ==
    LET i == CHOOSE j \in 1..Len(action.utilities) : action.utilities[j][1] = key
    IN  action.utilities[i][2]

DistancesFile(agent) == files[<<"distances", NameOf(agent)>>]

\* C12: for every Offer, the distance evaluate records is the one of the
\* point whose `self` is the utility the Offer's mapping holds for the
\* offering actor and whose `opp` is the one it holds for the other actor,
\* with the seat taken from partyprofiles; also when the mapping lists its
\* keys in another order than partyprofiles.
C12_SelfIsOwnUtilityByKey ==
    [][\A a \in Actors :
        OfferStepBy(a) =>
            LET offer == actions'[Len(actions')]
                self == ValueOf(offer, a)
                opp == ValueOf(offer, Other(a))
                is_b == IndexOf(agents, a)
                pair == IF is_b = 0 THEN <<self, opp>> ELSE <<opp, self>>
            IN  DistancesFile(a)'[Len(DistancesFile(a)')]
                    = distance_pareto(pair, is_b, pareto_front)]_vars

\* What the claims about aggregate read off a state.
EvaluationAggregate == aggregate_files["aggregate_evaluation.csv"]

DansAggregate == aggregate_files["dans_evaluation.csv"]

\* The evaluation rows a run (a tournament directory) holds for an ordinal.
RunEvaluationRows(run, session_id) ==
    SelectSeq(run.evaluation.rows, LAMBDA session : session.session_id = session_id)

\* The runs of a listing that hold an agreeing row for an ordinal.
AgreeingRuns(listing, session_id) ==
    {i \in 1..Len(listing) :
        \E j \in 1..Len(RunEvaluationRows(listing[i], session_id)) :
            RunEvaluationRows(listing[i], session_id)[j].agreement = "True"}

\* The sum of a column over the first n runs of a listing, agreeing runs only.
RECURSIVE AgreedSum(_, _, _, _)
AgreedSum(listing, n, session_id, field) ==
    IF n = 0 THEN 0
    ELSE AgreedSum(listing, n - 1, session_id, field)
            + (IF n \in AgreeingRuns(listing, session_id)
               THEN RunEvaluationRows(listing[n], session_id)[1][field] ELSE 0)

\* C13: in the aggregate by ordinal, num_agreements is the number of runs
\* whose row for the ordinal has agreement = True, and utility_a, utility_b,
\* distance_nash and distance_kalai are each the sum over the agreeing runs
\* divided by num_agreements, or 0 when no run agreed.
C13_AveragesOverAgreeingRuns ==
    EvaluationAggregate.written =>
        \A k \in 1..Len(EvaluationAggregate.rows) :
            LET row == EvaluationAggregate.rows[k]
                n == Cardinality(AgreeingRuns(results_dir, row.session_id))
            IN  /\ row.num_agreements = n
                /\ \A field \in {"utility_a", "utility_b", "distance_nash", "distance_kalai"} :
                    row[field] =
                        IF n = 0 THEN [num |-> 0, den |-> 1]
                        ELSE [num |-> AgreedSum(results_dir, Len(results_dir),
                                                row.session_id, field),
                              den |-> n]

\* C13 witness: of two runs only one agreed on an ordinal, at (0.6, 0.4),
\* and the aggregate has utility_a = 0.6 over num_agreements = 1 for it;
\* on the other ordinal no run agreed and the row holds zeros.
C13_Witness ==
    /\ EvaluationAggregate.written
    /\ Len(results_dir) = 2
    /\ \E k \in 1..Len(EvaluationAggregate.rows) :
        LET row == EvaluationAggregate.rows[k]
        IN  /\ row.num_agreements = 1
            /\ row.num_tournaments = 2
            /\ row.utility_a = [num |-> 6, den |-> 1]
            /\ row.utility_b = [num |-> 4, den |-> 1]
    /\ \E k \in 1..Len(EvaluationAggregate.rows) :
        LET row == EvaluationAggregate.rows[k]
        IN  /\ row.num_agreements = 0
            /\ row.utility_a = [num |-> 0, den |-> 1]
            /\ row.distance_nash = [num |-> 0, den |-> 1]

\* The Dans rows a run holds for an ordinal: seat A's, then seat B's.
RunDansRows(run, session_id) ==
    SelectSeq(run.dans.rows, LAMBDA session : session.session_id = session_id)

\* The runs of a listing that hold a Dans row for an ordinal and a seat.
Contributors(listing, session_id, seat) ==
    {i \in 1..Len(listing) : Len(RunDansRows(listing[i], session_id)) >= seat}

\* The sum of a column of the seat's rows over the first n runs of a listing.
RECURSIVE SeatSum(_, _, _, _, _)
SeatSum(listing, n, session_id, seat, field) ==
    IF n = 0 THEN 0
    ELSE SeatSum(listing, n - 1, session_id, seat, field)
            + (IF n \in Contributors(listing, session_id, seat)
               THEN RunDansRows(listing[n], session_id)[seat][field] ELSE 0)

\* The seat of the k-th row of a Dans file: rows come in pairs, A then B.
SeatOfRow(k) == ((k - 1) % 2) + 1

\* Two fractions of the same value.
SameValue(p, q) == p.num * q.den = q.num * p.den

AveragedColumns ==
    {"fortunate_pct", "selfish_pct", "concession_pct", "unfortunate_pct",
     "nice_pct", "silent_pct", "pref_sens"}

\* C14: in the aggregated Dans table each averaged class percentage and
\* pref_sens of an (ordinal, seat) group is the sum over the runs that hold
\* a row of the group divided by the number of those runs, also when some
\* run lacks a row for the ordinal.
C14_AveragesOverContributingRuns ==
    DansAggregate.written =>
        \A k \in 1..Len(DansAggregate.rows) :
            LET row == DansAggregate.rows[k]
                seat == SeatOfRow(k)
                contributors == Contributors(results_dir, row.session_id, seat)
            IN  \A field \in AveragedColumns :
                    SameValue(row[field],
                              [num |-> SeatSum(results_dir, Len(results_dir),
                                               row.session_id, seat, field),
                               den |-> Cardinality(contributors)])

\* The rows of the aggregated Dans table for an ordinal and a seat.
AggregatedRowsOf(session_id, seat) ==
    {k \in 1..Len(DansAggregate.rows) :
        DansAggregate.rows[k].session_id = session_id /\ SeatOfRow(k) = seat}

\* main raised while picking the key of a seat: the evaluation half was
\* written and every Dans row read has a session id inside the totals.
FailedSelectingKey ==
    /\ pc = "raised"
    /\ EvaluationAggregate.written
    /\ \A i \in 1..Len(Flatten(dans_list)) :
        Flatten(dans_list)[i].session_id \in 0..num_sessions

\* C15: for every ordinal and each seat the aggregated Dans row holds the
\* seat's contribution of every run (total number of offers, and the totals
\* the averages are taken of), also when the name recorded for the seat
\* differs between runs or both seats carry one name; there is exactly one
\* row per seat, and main never fails while picking the seat's key.
C15_EverySeatEveryRun ==
    /\ ~FailedSelectingKey
    /\ DansAggregate.written =>
        \A k \in 1..Len(DansAggregate.rows) :
            LET row == DansAggregate.rows[k]
                seat == SeatOfRow(k)
            IN  /\ Cardinality(AggregatedRowsOf(row.session_id, seat)) = 1
                /\ row.num_offers = SeatSum(results_dir, Len(results_dir),
                                            row.session_id, seat, "num_offers")
                /\ \A field \in AveragedColumns :
                    row[field].num = SeatSum(results_dir, Len(results_dir),
                                             row.session_id, seat, field)

\* C16: the aggregates main writes do not depend on the order in which the
\* tournament directories are read: run again on the same directories in
\* another order, main ends the same way with the same rows and values,
\* also when the tournaments do not hold the same session ordinals.
C16_ReadOrderInvariant ==
    (previous_run # <<>> /\ pc \in {"written", "raised"}) =>
        MainOutcome = previous_run[1]

\* A table with one row for every domain met in the rows read, and no two
\* rows of one domain.
KeyedByDomain(table) ==
    /\ \A j, k \in 1..Len(table.rows) :
        table.rows[j].domain = table.rows[k].domain => j = k
    /\ \A i \in 1..Len(Flatten(evaluation_list)) :
        \E k \in 1..Len(table.rows) :
            table.rows[k].domain = Flatten(evaluation_list)[i].domain

RECURSIVE Readable(_)
Readable(listing) ==
    IF listing = <<>> THEN <<>>
    ELSE IF Head(listing).evaluation.readable /\ Head(listing).dans.readable
         THEN <<Head(listing)>> \o Readable(Tail(listing))
         ELSE Readable(Tail(listing))

\* C18: when a file of one tournament directory is missing or unreadable,
\* main does not abort: it goes on with the rows of the remaining
\* directories.
C18_UnreadableDirectoryIsSkipped ==
    [][(pc = "main" /\ Readable(results_dir) # results_dir) =>
        /\ pc' = "evaluation"
        /\ evaluation_list' = [i \in 1..Len(Readable(results_dir)) |->
                                  Readable(results_dir)[i].evaluation.rows]
        /\ dans_list' = [i \in 1..Len(Readable(results_dir)) |->
                            Readable(results_dir)[i].dans.rows]]_vars

\* C19: when the specials.json of the session's domain is absent or cannot
\* be read, evaluate is not ended by an exception: it passes the trace and
\* returns the Dans metrics (offer counts, class percentages, behav_sens) of
\* both agents.
C19_BehaviouralMetricsWithoutSpecials ==
    ~specials_file.readable =>
        /\ pc \in {"start", "loop", "done"}
        /\ pc = "done" => Len(dans_metrics) = Len(agents)

\* C20: evaluate run a second time on the same trace and the same domain
\* reference, in an output directory that holds the files of the first run,
\* ends the same way and returns the same evaluation metrics and the same
\* Dans metrics.
C20_SameMetricsOnRerun ==
    (previous_run # <<>> /\ pc \in {"done", "raised"}) =>
        EvaluateOutcome = previous_run[1]

\* C20 witness: the second run has returned on a trace of two Offers and an
\* Accept, in a directory where the deltas file of the offering agent held
\* the two rows of the first run and now holds four.
C20_Witness ==
    /\ previous_run # <<>>
    /\ pc = "done"
    /\ Len(actions) = 3
    /\ HasAccept(actions)
    /\ \E a \in Actors :
        /\ Len(OffersOf(a, actions)) = 2
        /\ Len(DeltasFile(a)) = 4
        /\ dans_metrics[IndexOf(agents, a) + 1].num_offers = 2
    /\ evaluation_metrics[1].agreement

\* The last Accept of a trace that holds one.
LastAccept(trace) ==
    trace[CHOOSE i \in 1..Len(trace) :
              /\ trace[i].kind = "Accept"
              /\ \A j \in (i + 1)..Len(trace) : trace[j].kind # "Accept"]

\* k hundredths as a radicand: k * 10^16 squared 1e-9 steps.
RECURSIVE Hundredths(_)
Hundredths(k) ==
    IF k = 0 THEN BigZero ELSE BigAdd(Hundredths(k - 1), <<9313225, 801177600>>)

\* The squared Euclidean distance of two pairs of whole tenths, in hundredths.
SquaredTenths(x, y) ==
    LET dx == (x[1] - y[1]) \div Tenth
        dy == (x[2] - y[2]) \div Tenth
    IN  dx * dx + dy * dy

\* C22: when the trace holds an Accept, the distance_nash and distance_kalai
\* evaluate reports are the Euclidean distances of the accepting action's
\* utility pair to the Nash and the Kalai utility pair of the domain:
\* squared distance 0.02 for the agreement (0.6, 0.4) and Nash (0.7, 0.5).
C22_AgreementDistances ==
    (pc = "done" /\ HasAccept(actions)) =>
        LET m == evaluation_metrics[1]
            pair == UtilityList(LastAccept(actions))
        IN  /\ m.distance_nash =
                   Finite(Hundredths(SquaredTenths(pair, specials_file.nash)))
            /\ m.distance_kalai =
                   Finite(Hundredths(SquaredTenths(pair, specials_file.kalai)))
            /\ (pair = U(6, 4) /\ specials_file.nash = U(7, 5)) =>
                   m.distance_nash = Finite(Hundredths(2))

\* C22 witness: evaluate has returned on a trace accepted at (0.6, 0.4) on a
\* domain with Nash (0.7, 0.5) and Kalai (0.6, 0.5), reporting the squared
\* distances 0.02 and 0.01.
C22_Witness ==
    /\ pc = "done"
    /\ HasAccept(actions)
    /\ evaluation_metrics[1].utility_a = 6 * Tenth
    /\ evaluation_metrics[1].utility_b = 4 * Tenth
    /\ nash_utility = U(7, 5)
    /\ kalai_utility = U(6, 5)
    /\ evaluation_metrics[1].distance_nash = Finite(Hundredths(2))
    /\ evaluation_metrics[1].distance_kalai = Finite(Hundredths(1))

\* C27: the pass does not stop at an Accept.  Once an Accept is passed
\* agreement is True for the rest of the pass; an Offer that follows an
\* Accept is counted and put in exactly one class; and the agreement actor
\* and utility are those of the last Accept passed.
C27_PassGoesOnAfterAccept ==
    /\ [](HasAccept(actions) =>
            /\ agreement
            /\ agreement_actor = NameOf(LastAccept(actions).actor)
            /\ agreement_utility = UtilityList(LastAccept(actions)))
    /\ [][\A a \in Actors :
            (HasAccept(actions) /\ OfferStepBy(a)) =>
                /\ num_moves'[a] = num_moves[a] + 1
                /\ SumOfCounts(a)' = SumOfCounts(a) + 1
                /\ DeltasFile(a)' # DeltasFile(a)
                /\ agreement']_vars

\* C27 witness: evaluate has returned on a trace with an Accept of one
\* actor, an Offer after it, and then an Accept of the other actor, which
\* is the one reported.
C27_Witness ==
    /\ pc = "done"
    /\ Len(actions) = 4
    /\ actions[1].kind = "Offer"
    /\ actions[2].kind = "Accept"
    /\ actions[3].kind = "Offer"
    /\ actions[4].kind = "Accept"
    /\ actions[2].actor # actions[4].actor
    /\ num_moves[actions[3].actor] = Len(OffersOf(actions[3].actor, actions))
    /\ evaluation_metrics[1].agreement
    /\ evaluation_metrics[1].agreed_by = NameOf(actions[4].actor)

\* C30: every session id read from a file of any tournament indexes inside
\* the totals, whose length is num_sessions + 1 with num_sessions taken
\* from the first tournament read that has rows; main is never ended by an
\* index past the totals, also when a later tournament has more sessions
\* than the first.
C30_SessionIdsInsideTotals ==
    pc \in {"evaluation", "dans", "written", "raised"} =>
        /\ \A i \in 1..Len(Flatten(evaluation_list)) :
            Flatten(evaluation_list)[i].session_id \in 0..num_sessions
        /\ \A i \in 1..Len(Flatten(dans_list)) :
            Flatten(dans_list)[i].session_id \in 0..num_sessions

\* What the claims read off the tournament files.
IsHeader(line) == line[1] = "session_id"

LinesOf(name) == tournament_files[name].lines

HeaderCount(name) == Cardinality({i \in DOMAIN LinesOf(name) : IsHeader(LinesOf(name)[i])})

IsPrefix(s, t) == Len(s) <= Len(t) /\ \A i \in DOMAIN s : t[i] = s[i]

AllReturned == \A w \in DOMAIN workers : Returned(w)

\* The cells of a row after its session_id.
Cells(line) == Tail(line)

\* C21: after n calls of append_metrics in a row on an output directory that
\* was empty, tournament_evaluation.csv is one header line and then n rows in
\* the order of the calls, row i tagged with the session_id of call i and
\* holding its evaluation values, and tournament_dans.csv is one header line
\* and then 2n rows, rows 2i-1 and 2i tagged with the session_id of call i and
\* holding its two Dans rows; no step changes or removes a line written before.
C21_OneHeaderThenRowsInCallOrder ==
    /\ [](AllReturned /\ workers # <<>> =>
            LET n == Len(workers)
                evaluation == LinesOf("tournament_evaluation.csv")
                dans == LinesOf("tournament_dans.csv")
            IN  /\ Len(evaluation) = n + 1
                /\ evaluation[1] = <<"session_id", "agreement", "num_moves">>
                /\ HeaderCount("tournament_evaluation.csv") = 1
                /\ \A i \in 1..n :
                    /\ evaluation[i + 1][1] = workers[i].session_id
                    /\ Cells(evaluation[i + 1]) =
                         <<workers[i].metrics.evaluation[1][2],
                           workers[i].metrics.evaluation[2][2]>>
                /\ Len(dans) = 2 * n + 1
                /\ dans[1] = <<"session_id", "agent", "behav_sens">>
                /\ HeaderCount("tournament_dans.csv") = 1
                /\ \A i \in 1..n : \A r \in 1..2 :
                    /\ dans[2 * i - 1 + r][1] = workers[i].session_id
                    /\ Cells(dans[2 * i - 1 + r]) =
                         <<workers[i].metrics.dans[1][2][r],
                           workers[i].metrics.dans[2][2][r]>>)
    /\ [][\A name \in TournamentFileNames :
            IsPrefix(LinesOf(name), tournament_files'[name].lines)]_vars

\* Three calls in a row have returned, for sessions that are not all the same
\* and with metrics that are not all the same.
C21_Witness ==
    /\ Len(workers) >= 3
    /\ AllReturned
    /\ workers[1].session_id # workers[2].session_id
    /\ workers[2].metrics # workers[3].metrics
    /\ Len(LinesOf("tournament_dans.csv")) >= 7

\* The orders in which the callers could have run one after the other.
CallOrders ==
    LET n == Len(workers)
    IN  {p \in [1..n -> 1..n] : \A i, j \in 1..n : p[i] = p[j] => i = j}

\* What the callers, run one after the other in the order p on the empty
\* directory, leave in the two files.
SequentialEvaluation(p) ==
    <<<<"session_id", "agreement", "num_moves">>>> \o
    [i \in 1..Len(workers) |->
        <<workers[p[i]].session_id>> \o
        <<workers[p[i]].metrics.evaluation[1][2], workers[p[i]].metrics.evaluation[2][2]>>]

SequentialDans(p) ==
    <<<<"session_id", "agent", "behav_sens">>>> \o
    [k \in 1..(2 * Len(workers)) |->
        LET w == p[(k + 1) \div 2]
            r == IF k % 2 = 1 THEN 1 ELSE 2
        IN  <<workers[w].session_id>> \o
            <<workers[w].metrics.dans[1][2][r], workers[w].metrics.dans[2][2][r]>>]

\* C23: when callers of append_metrics for different sessions run at the same
\* time on one output directory, then, once they have all returned, each of
\* the two tournament files holds exactly one header line and is what the
\* callers would have left had they run one after the other in some order.
C23_ParallelCallsAsSomeSequence ==
    AllReturned /\ Len(workers) >= 2 =>
        /\ HeaderCount("tournament_evaluation.csv") = 1
        /\ HeaderCount("tournament_dans.csv") = 1
        /\ \E p \in CallOrders :
            LinesOf("tournament_evaluation.csv") = SequentialEvaluation(p)
        /\ \E p \in CallOrders :
            LinesOf("tournament_dans.csv") = SequentialDans(p)

\* What the claims read off the agent.
LastSent == sent[Len(sent)]

\* A step in which the agent handled YourTurn: find_bid returned or raised.
TurnTaken == found' # found \/ (pc = "negotiating" /\ pc' = "raised")

\* C24: the bids find_bid of SimpleAgent returns over its turns are in
\* non-increasing order of the agent's own utility, the first of them is a bid
\* of the highest utility of the domain, no bid is returned twice, and the
\* Offers sent carry these bids in this order.
C24_BidsDescendNoneTwice ==
    party = "SimpleAgent" =>
        /\ \A i, j \in DOMAIN found :
            i < j => Utility(found[i]) >= Utility(found[j]) /\ found[i] # found[j]
        /\ found # <<>> => \A bid \in DOMAIN profile : Utility(found[1]) >= Utility(bid)
        /\ Len(sent) = Len(found)
        /\ \A i \in DOMAIN sent : sent[i].kind = "Offer" => sent[i].bid = found[i]

\* SimpleAgent has taken three turns on the domain of three bids, two of one
\* utility, and offered at the first and the last of them.
C24_Witness ==
    /\ party = "SimpleAgent"
    /\ profile = <<3, 4, 3>>
    /\ found = <<2, 1, 3>>
    /\ sent[1] = Offer(2)
    /\ sent[3] = Offer(3)

\* The bid find_bid of SimpleAgent is about to return: the bid of the sorted
\* list at the index, None when the index is past its end.
NextOwnBid ==
    LET index == IF current_bid_index < 0 THEN 0 ELSE current_bid_index
        sorted == SortedByUtility(profile)
    IN  IF index < Len(sorted) THEN sorted[index + 1] ELSE None

\* C28: whenever SimpleAgent is given a turn, current_bid_index is inside
\* all_bids when find_bid reads the list, and the turn ends with an action
\* sent, however many turns went before.
C28_IndexStaysInsideAllBids ==
    [][party = "SimpleAgent" /\ TurnTaken =>
          /\ NextOwnBid # None
          /\ pc' = "negotiating"
          /\ Len(sent') = Len(sent) + 1]_vars

\* The received bid is acceptable to SimpleAgent at the clock reading p; on a
\* turn that reads the clock, progress' is the reading.
Acceptable(p) ==
    /\ last_received_bid # None
    /\ \/ NextOwnBid # None /\ Utility(last_received_bid) >= Utility(NextOwnBid)
       \/ /\ p >= 95
          /\ reservation_bid = None \/
               Utility(last_received_bid) >= Utility(reservation_bid)

\* C25: on every turn SimpleAgent sends exactly one action; it is an Accept
\* of the received bid if a bid was received and either its utility is at least
\* that of the agent's next own bid or progress is at least 0.95 and there is
\* no reservation bid or the received bid's utility is at least the reservation
\* bid's; in every other case it is an Offer of the agent's next own bid.
C25_AcceptIffAcceptable ==
    [][party = "SimpleAgent" /\ TurnTaken =>
          sent' = Append(sent, IF Acceptable(progress') THEN Accept(last_received_bid)
                               ELSE Offer(NextOwnBid))]_vars

\* The same on the turns on which find_bid has a bid to return: the only
\* turns that differ are those on which the list is exhausted.
C25_AcceptIffAcceptableWhileBidsLast ==
    [][party = "SimpleAgent" /\ TurnTaken /\ NextOwnBid # None =>
          sent' = Append(sent, IF Acceptable(progress') THEN Accept(last_received_bid)
                               ELSE Offer(NextOwnBid))]_vars

\* C26: for SimpleAgent and for Agent61 alike, last_received_bid is at all
\* times the bid of the latest Offer of the opponent the agent was notified
\* of, and None before the first, so that ActionDone notifications of the
\* agent's own actions and of Accepts of the opponent leave it as it is; and
\* an Accept is sent only after an Offer of the opponent was notified, and
\* carries the bid of the latest one.
C26_AcceptsLatestOpponentOffer ==
    /\ [](party \in Parties => last_received_bid = opponent_offer)
    /\ [][sent' # sent /\ party \in Parties =>
            (LET action == sent'[Len(sent')]
             IN  /\ sent' = Append(sent, action)
                 /\ action.kind = "Accept" =>
                       (opponent_offer # None /\ action.bid = opponent_offer))]_vars

\* Agent61 accepted the opponent's Offer of bid 1 and was later notified of
\* an Offer of bid 2.
C26_Witness ==
    /\ party = "Agent61"
    /\ \E i \in DOMAIN sent : sent[i] = Accept(1)
    /\ opponent_offer = 2
    /\ last_received_bid = 2
    /\ notified >= 4

\* SimpleAgent accepted the opponent's Offer of bid 1 after offering itself.
C26_WitnessSimpleAgent ==
    /\ party = "SimpleAgent"
    /\ Len(sent) >= 2
    /\ sent[1].kind = "Offer"
    /\ sent[Len(sent)] = Accept(1)

\* C29: on every call of Agent61.find_bid after the first, if the bid chosen
\* is removed from best_bids and all_best_bids is not empty, the first bid of
\* all_best_bids, its highest in utility, is moved to best_bids; and no bid is
\* in both lists.
C29_RemovedBidIsReplaced ==
    /\ [](party = "Agent61" /\ best_bids # NoList =>
            /\ \A i \in DOMAIN best_bids : ~InList(best_bids[i], all_best_bids)
            /\ \A i \in DOMAIN all_best_bids : \A j \in DOMAIN all_best_bids :
                 Utility(all_best_bids[1]) >= Utility(all_best_bids[j]))
    /\ [][party = "Agent61" /\ best_bids # NoList /\ found' # found =>
            (LET best_bid == found'[Len(found')]
             IN  InList(best_bid, best_bids) /\ all_best_bids # <<>> =>
                    (/\ ~InList(best_bid, best_bids')
                     /\ InList(all_best_bids[1], best_bids')
                     /\ all_best_bids' = Tail(all_best_bids)))]_vars

============================================================================
